---- MODULE Spec2Model ----
(***************************************************************************)
(* Model of the acquisition / control pipeline of inverter_api.py:         *)
(* the poll cycle (read_regs, sample insert, relay_auto_step, battery      *)
(* counter), the relay endpoints, POST /api/config, the battery counter    *)
(* endpoints and the archival operations.                                  *)
(*                                                                         *)
(* Units.  Voltages are integers in tenths of a volt (47.5 V = 475).       *)
(* Time is an integer number of seconds; the same clock `now` stands for   *)
(* time.monotonic() and for datetime.now() (a clock that never steps       *)
(* backwards).  Energies of battery_counters are kept multiplied by 3600   *)
(* (energy_wh = battery_w * POLL_S / 3600), those of archive multiplied by *)
(* 3600 as well (Wh = SUM(AVG per minute) / 60, AVG = sum / count with     *)
(* count dividing 60), so that every value is an exact integer.            *)
(***************************************************************************)
EXTENDS Integers, Sequences, FiniteSets, TLC

\* ------------------------------------------------------------------ bounds
MaxTicks == 3

MaxBattTicks == 1

MaxResetTicks == 2

MaxStoreTicks == 3

MaxReadTicks == 1

MaxManualTicks == 1

MaxDayRows == 2

MaxLoopTicks == 1

MaxEnergyTicks == 2
MaxUpdates == 3
MaxCounters == 2

\* ------------------------------------------------------- program constants
POLL_S == 5
DEFAULT_NET_RESET_V == 460
DEFAULT_ON_V == 475
DEFAULT_OFF_V == 490
DEFAULT_MIN_TOGGLE_SEC == 5

SIGNIFICANT_PRODUCTION_THRESHOLD == 100

MIN_SUNRISE_HOUR == 6

MAX_SUNSET_HOUR == 20

INTERVALS_PER_HOUR == 12
RESET_DEBOUNCE_S == 3600
SECONDS_PER_MINUTE == 60
SECONDS_PER_DAY == 86400
WH_DIVISOR == 60
MIN_TOGGLE_MAX == 86400
NET_RESET_MIN == 300
NET_RESET_MAX == 700

MAX_DAYS == 3650

\* Python's None / SQL NULL / a key absent from a JSON body.
None == -999999

\* The clock reading at process start (one day after the epoch of `now`).
BootTime == SECONDS_PER_DAY

VARIABLES
    now,                \* clock, seconds
    nticks,             \* clock advances so far
    started,            \* main() has run relay_setup and started poll_loop
    CONF,               \* the relay and battery keys of the configuration
    GPIO_BACKEND,       \* "rpi", "lgpio" or "none"
    pin_level,          \* level last written to the relay pin
    RELAY_STATE,        \* "unknown" (None), "on" (True), "off" (False)
    RELAY_LAST_TOGGLE,
    samples,            \* table samples: set of rows, timestamp unique
    archive,            \* table archive: set of rows, day unique
    battery_counters,   \* table battery_counters: sequence of rows, id = index
    mem_last,           \* _last: timestamp of the in-memory latest sample
    last_keys,          \* _last: the keys of the dict besides "timestamp"
    stop,               \* _stop: the shutdown event is set
    poll_done,          \* poll_loop has returned
    day_samples,        \* the rows of samples of the analysed date
    daily_analysis,     \* table daily_analysis: the dates with a document
    pending,            \* poll_loop between ts_now = now_str() and the INSERT:
                        \* the timestamp taken and the read's outcome
    lastOp,             \* history: what the last step did and observed
    relay_changed_at,   \* history: clock at the last change of RELAY_STATE
    scen,               \* history: progress along the scenario trajectory
    upd_count,          \* history: per counter row, updates applied to it
    last_archive,       \* history: cutoff of the last applied archival run
                        \* with no sample inserted since
    gpio_ctx,           \* _GPIO_CTX["h"] and the lgpio chip handles in use
    thr,                \* per thread: position inside a battery counter call
    fn_in,              \* argument of the function under study
    fn_out              \* its result

vars == <<now, nticks, started, CONF, GPIO_BACKEND, pin_level,
          RELAY_STATE, RELAY_LAST_TOGGLE, samples, archive, battery_counters,
          mem_last, last_keys, stop, poll_done, day_samples, daily_analysis,
          pending, lastOp, relay_changed_at, scen, upd_count,
          last_archive, gpio_ctx, thr, fn_in, fn_out>>

Max(a, b) == IF a >= b THEN a ELSE b

Min(a, b) == IF a <= b THEN a ELSE b

Abs(x) == IF x < 0 THEN -x ELSE x

RECURSIVE SumOver(_, _)
\* Sum of f[x] over the finite set D.
SumOver(f, D) ==
    IF D = {} THEN 0
    ELSE LET x == CHOOSE y \in D : TRUE IN f[x] + SumOver(f, D \ {x})

\* --------------------------------------------------------------- relay
\* Mutant of level_high: the polarity of the relay board is ignored.
level_high_ignores_polarity(hw_on, active_high) == hw_on

\* level_high = hw_on if active_high else (not hw_on)
level_high(hw_on, active_high) == IF active_high THEN hw_on ELSE ~hw_on

\* _gpio_write: the level on the pin after a write by the selected backend.
gpio_write(backend, level, old) ==
    IF backend = "none" THEN old ELSE (IF level THEN "high" ELSE "low")

\* relay_apply(hw_on): write the pin, set RELAY_STATE and RELAY_LAST_TOGGLE.
relay_apply(hw_on, cfg, backend, pin, t) ==
    [state |-> IF hw_on THEN "on" ELSE "off",
     last  |-> t,
     pin   |-> gpio_write(backend, level_high(hw_on, cfg.active_high), pin)]

\* relay_setup(): skipped without a GPIO backend; otherwise logical OFF.
relay_setup(cfg, backend, st, last, pin, t) ==
    IF backend = "none"
    THEN [state |-> st, last |-> last, pin |-> pin]
    ELSE [state |-> "off", last |-> t,
          pin |-> gpio_write(backend, ~cfg.active_high, pin)]

\* min_gap = max(0, int(cfg.get("min_toggle_sec", 5)))
min_gap(cfg) == Max(0, cfg.min_toggle_sec)

\* Mutant of relay_want: the OFF -> ON test compares with off_v.
relay_want_wrong_threshold(cur, batt_v, on_v, off_v) ==
    IF cur = "unknown"
    THEN (IF batt_v <= on_v THEN "on"
          ELSE IF batt_v >= off_v THEN "off"
          ELSE "unknown")
    ELSE (IF cur = "off" /\ batt_v <= off_v THEN "on"
          ELSE IF cur = "on" /\ batt_v >= off_v THEN "off"
          ELSE cur)

\* The hysteresis decision of relay_auto_step: the wanted state.
relay_want(cur, batt_v, on_v, off_v) ==
    IF cur = "unknown"
    THEN (IF batt_v <= on_v THEN "on"
          ELSE IF batt_v >= off_v THEN "off"
          ELSE "unknown")
    ELSE (IF cur = "off" /\ batt_v <= on_v THEN "on"
          ELSE IF cur = "on" /\ batt_v >= off_v THEN "off"
          ELSE cur)

\* Mutant of relay_gap_ok: the elapsed time is not compared at all.
relay_gap_ok_always(t, last, cfg) == TRUE

\* The anti-chatter test of relay_auto_step.
relay_gap_ok(t, last, cfg) == (t - last) >= min_gap(cfg)

\* relay_auto_step(batt_v) reaches relay_apply.
relay_auto_applies(batt_v, cfg, st, last, t) ==
    /\ cfg.enabled
    /\ batt_v # None
    /\ relay_want(st, batt_v, cfg.on_v, cfg.off_v) # st
    /\ relay_gap_ok(t, last, cfg)

\* relay_auto_step(batt_v)
relay_auto_step(batt_v, cfg, backend, st, last, pin, t) ==
    LET keep == [state |-> st, last |-> last, pin |-> pin]
        want == relay_want(st, batt_v, cfg.on_v, cfg.off_v)
    IN  IF relay_auto_applies(batt_v, cfg, st, last, t)
        THEN relay_apply(want = "on", cfg, backend, pin, t)
        ELSE keep

\* ------------------------------------------------------- battery counter
\* SQL NULL of the text column reset_reason.
NULL == "NULL"

\* A row as INSERT INTO battery_counters(counter_type, start_timestamp,
\* start_battery_v, created_at) creates it: totals default 0, reason NULL.
new_counter_row(id, t) ==
    [id |-> id, start_timestamp |-> t,
     total_batt_in_Wh |-> 0, total_batt_out_Wh |-> 0, total_batt_net_Wh |-> 0,
     reset_reason |-> NULL]

\* MAX(start_timestamp) over the rows (rows non-empty).
max_start(rows) ==
    CHOOSE m \in {rows[i].start_timestamp : i \in DOMAIN rows} :
        \A i \in DOMAIN rows : rows[i].start_timestamp <= m

\* SELECT * ... ORDER BY start_timestamp DESC LIMIT 1: the ids the query may
\* return; SQL leaves the order among equal start_timestamp unspecified.
current_ids(rows) ==
    {i \in DOMAIN rows : rows[i].start_timestamp = max_start(rows)}

\* get_current_battery_counter(): the table after the call (a row is created
\* when the table is empty).
get_current_battery_counter(rows, t) ==
    IF rows # <<>> THEN rows ELSE <<new_counter_row(1, t)>>

\* reset_battery_counter(reason): close the open rows, insert a new row.
reset_battery_counter(reason, rows, t) ==
    Append([i \in DOMAIN rows |->
                IF rows[i].reset_reason = NULL
                THEN [rows[i] EXCEPT !.reset_reason = reason]
                ELSE rows[i]],
           new_counter_row(Len(rows) + 1, t))

\* The SELECT of get_current_battery_counter run by thread t: the calls in
\* progress it can lead to, one per row the query may return.
counter_select(t, w, rows) ==
    IF rows = <<>> THEN {[t |-> t, pc |-> "insert", id |-> 0, w |-> w]}
    ELSE {[t |-> t, pc |-> "have", id |-> i, w |-> w] : i \in current_ids(rows)}

\* energy_wh = (float(battery_w) * POLL_S) / 3600.0, kept multiplied by 3600.
energy_wh(battery_w) == battery_w * POLL_S

\* Mutant of update_row: the net total is recomputed from the totals as they
\* were before the statement, without the energy of this cycle.
update_row_stale_net(r, battery_w) ==
    IF battery_w > 0
    THEN [r EXCEPT
            !.total_batt_in_Wh = r.total_batt_in_Wh + energy_wh(battery_w),
            !.total_batt_net_Wh = r.total_batt_in_Wh - r.total_batt_out_Wh]
    ELSE IF battery_w < 0
    THEN [r EXCEPT
            !.total_batt_out_Wh = r.total_batt_out_Wh + Abs(energy_wh(battery_w)),
            !.total_batt_net_Wh = r.total_batt_in_Wh - r.total_batt_out_Wh]
    ELSE r

\* The UPDATE of update_battery_counter on the row with the given id; the
\* right-hand sides of one UPDATE read the values before the statement.
update_row(r, battery_w) ==
    IF battery_w > 0
    THEN [r EXCEPT
            !.total_batt_in_Wh = r.total_batt_in_Wh + energy_wh(battery_w),
            !.total_batt_net_Wh = r.total_batt_in_Wh + energy_wh(battery_w)
                                    - r.total_batt_out_Wh]
    ELSE IF battery_w < 0
    THEN [r EXCEPT
            !.total_batt_out_Wh = r.total_batt_out_Wh + Abs(energy_wh(battery_w)),
            !.total_batt_net_Wh = r.total_batt_in_Wh
                                    - (r.total_batt_out_Wh + Abs(energy_wh(battery_w)))]
    ELSE r

\* update_battery_counter(battery_w, battery_v); `pick` resolves the order
\* among rows of equal start_timestamp (pick \in current_ids of the table).
update_battery_counter(battery_w, battery_v, rows, t, pick) ==
    IF battery_w = None \/ battery_v = None THEN rows
    ELSE LET cur == get_current_battery_counter(rows, t)
             id  == IF rows = <<>> THEN 1 ELSE pick
         IN  [cur EXCEPT ![id] = update_row(cur[id], battery_w)]

\* The energy accumulated in all rows (charged plus discharged).
total_energy(rows) ==
    SumOver([i \in DOMAIN rows |->
                rows[i].total_batt_in_Wh + rows[i].total_batt_out_Wh], DOMAIN rows)

\* Mutant of reset_debounced: a counter started exactly one hour ago still
\* blocks the reset.
reset_debounced_inclusive(rows, t) ==
    rows # <<>> /\ (t - max_start(rows)) <= RESET_DEBOUNCE_S

\* The debounce of check_battery_reset_condition: a counter exists and the
\* most recent one started less than one hour ago.
reset_debounced(rows, t) ==
    rows # <<>> /\ (t - max_start(rows)) < RESET_DEBOUNCE_S

\* The reason string check_battery_reset_condition passes to the reset.
AUTO_REASON == "battery_discharge"

\* check_battery_reset_condition(battery_v, battery_w): the table after the
\* call and the value returned (TRUE iff the counter was reset).
check_battery_reset_condition(battery_v, battery_w, reset_thr, rows, t) ==
    IF battery_v = None \/ battery_w = None THEN [rows |-> rows, ret |-> FALSE]
    ELSE IF battery_w < 0 /\ battery_v <= reset_thr
         THEN (IF reset_debounced(rows, t)
               THEN [rows |-> rows, ret |-> FALSE]
               ELSE [rows |-> reset_battery_counter(AUTO_REASON, rows, t),
                     ret |-> TRUE])
         ELSE [rows |-> rows, ret |-> FALSE]


\* ------------------------------------------------------ time-series store
MinuteOf(ts) == ts \div SECONDS_PER_MINUTE

DayOf(ts) == ts \div SECONDS_PER_DAY

\* Mutant of insert_or_ignore: INSERT OR REPLACE, the new row takes the place
\* of the row with the same timestamp.
insert_or_replace(tbl, row) ==
    {r \in tbl : r.timestamp # row.timestamp} \cup {row}

\* INSERT OR IGNORE INTO samples under the unique index on timestamp.
insert_or_ignore(tbl, row) ==
    IF \E r \in tbl : r.timestamp = row.timestamp THEN tbl ELSE tbl \cup {row}

\* Mutant of delete_older: the DELETE removes nothing.
delete_older_skipped(tbl, cutoff) == tbl

\* DELETE FROM samples WHERE timestamp < cutoff
delete_older(tbl, cutoff) == {r \in tbl : ~(r.timestamp < cutoff)}

\* Mutant of count_older: the count is of the whole table.
count_older_all(tbl, cutoff) == Cardinality(tbl)

\* SELECT COUNT(*) FROM samples WHERE timestamp < cutoff
count_older(tbl, cutoff) == Cardinality({r \in tbl : r.timestamp < cutoff})

\* The values of column col in the rows of minute m that are not NULL.
minute_rows(tbl, m, col) ==
    {r \in tbl : MinuteOf(r.timestamp) = m /\ r[col] # None}

\* AVG(col) of minute m multiplied by 60 (NULL when every value is NULL).
minute_avg(tbl, m, col) ==
    LET R == minute_rows(tbl, m, col)
    IN  IF R = {} THEN None
        ELSE (SumOver([r \in R |-> r[col]], R) * WH_DIVISOR) \div Cardinality(R)

\* The minutes of day d that have a row older than cutoff.
day_minutes(tbl, cutoff, d) ==
    {MinuteOf(r.timestamp) : r \in {q \in tbl : q.timestamp < cutoff /\ DayOf(q.timestamp) = d}}

\* SUM(col)/60.0 over the minutes of day d (NULL when every average is NULL).
day_sum(tbl, cutoff, d, col) ==
    LET old == {q \in tbl : q.timestamp < cutoff}
        M == {m \in day_minutes(tbl, cutoff, d) : minute_avg(old, m, col) # None}
    IN  IF M = {} THEN None
        ELSE SumOver([m \in M |-> minute_avg(old, m, col)], M)

\* Mutant of day_batt: the minute averages are summed with their sign.
day_batt_signed(tbl, cutoff, d, sign) ==
    LET old == {q \in tbl : q.timestamp < cutoff}
        M == day_minutes(tbl, cutoff, d)
        part(m) == LET a == minute_avg(old, m, "battery_w")
                   IN  IF a = None THEN 0 ELSE sign * a
    IN  SumOver([m \in M |-> part(m)], M)

\* SUM(CASE WHEN battery_w>0 THEN battery_w ELSE 0 END)/60.0 (sign = 1) and
\* SUM(CASE WHEN battery_w<0 THEN -battery_w ELSE 0 END)/60.0 (sign = -1).
day_batt(tbl, cutoff, d, sign) ==
    LET old == {q \in tbl : q.timestamp < cutoff}
        M == day_minutes(tbl, cutoff, d)
        part(m) == LET a == minute_avg(old, m, "battery_w")
                   IN  IF a = None THEN 0
                       ELSE IF sign * a > 0 THEN sign * a ELSE 0
    IN  SumOver([m \in M |-> part(m)], M)

\* The grouped-by-day summary of the rows older than cutoff.
archive_rows(tbl, cutoff) ==
    {[day |-> d,
      pv_Wh |-> day_sum(tbl, cutoff, d, "pv_w"),
      load_Wh |-> day_sum(tbl, cutoff, d, "load_w"),
      grid_Wh |-> day_sum(tbl, cutoff, d, "grid_w"),
      batt_in_Wh |-> day_batt(tbl, cutoff, d, 1),
      batt_out_Wh |-> day_batt(tbl, cutoff, d, -1)]
     : d \in {DayOf(q.timestamp) : q \in {r \in tbl : r.timestamp < cutoff}}}

\* INSERT OR REPLACE INTO archive for every summary row.
upsert_archive(arch, rows) ==
    {a \in arch : ~(\E r \in rows : r.day = a.day)} \cup rows

\* _archive_compute_and_apply(cutoff, apply): tables and summary after it.
archive_compute_and_apply(smp, arch, cutoff, apply) ==
    LET rows == archive_rows(smp, cutoff)
    IN  [samples |-> IF apply /\ rows # {} THEN delete_older(smp, cutoff) ELSE smp,
         archive |-> IF apply /\ rows # {} THEN upsert_archive(arch, rows) ELSE arch,
         minutes_to_delete |-> count_older(smp, cutoff),
         days_to_archive |-> Cardinality(rows)]

\* db_archive_and_trim / db_archive_upto_today: upsert, then always delete.
db_archive(smp, arch, cutoff) ==
    [samples |-> delete_older(smp, cutoff),
     archive |-> upsert_archive(arch, archive_rows(smp, cutoff))]

\* cutoff = (now - days).strftime("%Y-%m-%d 00:00:00")
cutoff_days(t, days) == (DayOf(t) - days) * SECONDS_PER_DAY

\* cutoff = now.strftime("%Y-%m-%d 00:00:00")
cutoff_today(t) == DayOf(t) * SECONDS_PER_DAY

\* ------------------------------------------------------------- read_regs
\* The register values a driver hands back when every read fails.
NoVals == [pv_w |-> None, battery_w |-> None, battery_v |-> None,
           load_w |-> None, grid_w |-> None]

\* _read_regs_minimalmodbus(): "exc" is an exception outside the register
\* loop (returns None); "allnone" is every read_register raising (each value
\* None, the dict still returned); "nobattv" is the read of battery_v raising.
read_regs_minimalmodbus(so, dev) ==
    IF so = "exc" THEN [ok |-> FALSE, vals |-> NoVals]
    ELSE IF so = "allnone" THEN [ok |-> TRUE, vals |-> NoVals]
    ELSE IF so = "nobattv" THEN [ok |-> TRUE, vals |-> [dev EXCEPT !.battery_v = None]]
    ELSE [ok |-> TRUE, vals |-> dev]

\* The fallback of read_regs after a primary failure:
\* if _MINIMODBUS is not None: out = _read_regs_minimalmodbus() ...
read_regs_fallback(so, dev) ==
    IF so = "unavail"
    THEN [ok |-> FALSE, vals |-> NoVals, src |-> "none", attempts |-> 0,
          raised |-> FALSE]
    ELSE LET out == read_regs_minimalmodbus(so, dev)
         IN  [ok |-> out.ok, vals |-> out.vals,
              src |-> IF out.ok THEN "secondary" ELSE "none", attempts |-> 1,
              raised |-> FALSE]

\* Mutant of read_regs: the secondary driver is also run after a primary
\* success.
read_regs_fallback_after_ok(po, so, dev) ==
    IF po = "raise"
    THEN [ok |-> FALSE, vals |-> NoVals, src |-> "none", attempts |-> 0,
          raised |-> TRUE]
    ELSE IF po = "ok"
    THEN [ok |-> TRUE, vals |-> dev, src |-> "primary",
          attempts |-> read_regs_fallback(so, dev).attempts, raised |-> FALSE]
    ELSE read_regs_fallback(so, dev)

\* read_regs(): po is the fate of the primary driver ("unavail": pymodbus not
\* importable, "raise": the client constructor or cli.connect() raises, which
\* no handler of read_regs catches, "connfail": cli.connect() false,
\* "blockerr": a block read failed, "ok"), so that of the secondary one.
read_regs(po, so, dev) ==
    IF po = "unavail" THEN read_regs_fallback(so, dev)
    ELSE IF po = "raise"
    THEN [ok |-> FALSE, vals |-> NoVals, src |-> "none", attempts |-> 0,
          raised |-> TRUE]
    ELSE IF po = "connfail" THEN read_regs_fallback(so, dev)
    ELSE IF po = "blockerr" THEN read_regs_fallback(so, dev)
    ELSE [ok |-> TRUE, vals |-> dev, src |-> "primary", attempts |-> 0,
          raised |-> FALSE]

\* ------------------------------------------------------- validate_config
\* The relay and battery part of validate_config(data); data.keys are the
\* keys present in the JSON body.
validate_config(data) ==
    /\ ("net_reset_voltage" \in data.keys =>
            (NET_RESET_MIN <= data.net_reset_voltage
             /\ data.net_reset_voltage <= NET_RESET_MAX))
    /\ (("on_v" \in data.keys /\ "off_v" \in data.keys) =>
            ~(data.off_v <= data.on_v))
    /\ ("min_toggle_sec" \in data.keys =>
            ~(data.min_toggle_sec < 0 \/ data.min_toggle_sec > MIN_TOGGLE_MAX))

\* The assignments of config() for the keys present in the body.
apply_config(cfg, data) ==
    [k \in DOMAIN cfg |-> IF k \in data.keys THEN data[k] ELSE cfg[k]]

\* ---------------------------------------------------------------- state
\* CONF.setdefault("relay", {...}) and DEFAULT_NET_RESET_V.
DefaultConf ==
    [enabled |-> FALSE, active_high |-> TRUE,
     on_v |-> DEFAULT_ON_V, off_v |-> DEFAULT_OFF_V,
     min_toggle_sec |-> DEFAULT_MIN_TOGGLE_SEC,
     net_reset_voltage |-> DEFAULT_NET_RESET_V]

\* analyze_daily_data returns {} (no document).
NoDoc == [empty |-> TRUE, total_samples |-> 0, photovoltaic |-> "none",
          battery |-> "none", grid |-> "none", household |-> "none",
          pv_total |-> 0, has_efficiency |-> FALSE, error |-> "none"]

\* The history record of a step; fields a step does not set keep these values.
NoOp ==
    [op |-> "init", ok |-> FALSE, src |-> "none", attempts |-> 0,
     po |-> "ok", so |-> "ok", v |-> None, w |-> None, pv |-> None,
     reset |-> FALSE,
     prev |-> "unknown", cutoff |-> None, apply |-> FALSE,
     accepted |-> FALSE, raised |-> FALSE, repeat |-> FALSE,
     err |-> "none", steps |-> 0, minutes |-> 0, days |-> 0,
     doc |-> NoDoc, after |-> "init"]

\* The keys of a complete sample s = {"timestamp": ts_now, **regs} with the
\* derived grid_a and load_pf; the stub {"timestamp": ts_now} has none.
SampleKeys == {"regs", "derived"}

\* poll_loop is not between ts_now = now_str() and the INSERT.
NoPending ==
    [ts |-> None, po |-> "ok", so |-> "ok", dev |-> NoVals, err |-> "none"]

\* The reference power P of the +P / -P updates counted in upd_count (500 W).
PRef == 100 * POLL_S

\* The voltage trajectory of the hysteresis scenario: 50, 47, 48, 46 V.
Traj == <<500, 470, 480, 460>>

NoScen == [log |-> <<>>, t |-> 0]

\* Module globals after import: RELAY_STATE None, RELAY_LAST_TOGGLE 0.0,
\* _last None, empty tables (db_init creates them).
\* _GPIO_CTX = {"h": None} at import; no chip handle was ever opened.
\* History: open are the handles gpiochip_open returned and gpiochip_close
\* did not release, opened and closed count the calls of the two, reopened
\* says that a handle was opened after _gpio_cleanup ran, exited that the
\* interpreter is exiting (the atexit callback has run).
NoGpio ==
    [h |-> None, open |-> {}, opened |-> 0, closed |-> 0, reopened |-> FALSE,
     exited |-> FALSE]

\* The chip handles lgpio can hand out are 0..MaxHandle.
MaxHandle == 2

\* The results LGPIO.gpiochip_open(0) can have: any handle not in use; None
\* stands for the exception raised when there is none.  Without lgpio no
\* handle is ever asked for.
FreshHandles(ctx, backend) ==
    IF backend = "lgpio" /\ (0..MaxHandle) \ ctx.open # {}
    THEN (0..MaxHandle) \ ctx.open
    ELSE {None}

\* _gpio_setup_output with lgpio: h = _GPIO_CTX.get("h") or gpiochip_open(0);
\* a stored handle that is None or 0 is falsy, and hn is then the result of
\* gpiochip_open.
gpio_setup_output(ctx, backend, hn) ==
    IF backend # "lgpio" THEN ctx
    ELSE IF ctx.h # None /\ ctx.h # 0 THEN ctx
    ELSE IF hn = None THEN ctx
    ELSE [ctx EXCEPT !.h = hn, !.open = @ \cup {hn}, !.opened = @ + 1,
                     !.reopened = @ \/ ctx.closed > 0]

\* _gpio_write with lgpio: if h is None the pin is set up first.
gpio_write_handle(ctx, backend, hn) ==
    IF backend = "lgpio" /\ ctx.h = None
    THEN gpio_setup_output(ctx, backend, hn)
    ELSE ctx

\* _gpio_cleanup with lgpio: gpiochip_close(h) if h is not None; h = None.
gpio_cleanup(ctx, backend) ==
    IF backend # "lgpio" THEN ctx
    ELSE IF ctx.h = None THEN ctx
    ELSE [ctx EXCEPT !.h = None, !.open = @ \ {ctx.h}, !.closed = @ + 1]

\* The GPIO context after a handler that calls _gpio_setup_output ("setup"),
\* _gpio_write ("write") or neither ("none").
gpio_after(ctx, backend, call, hn) ==
    IF call = "setup" THEN gpio_setup_output(ctx, backend, hn)
    ELSE IF call = "write" THEN gpio_write_handle(ctx, backend, hn)
    ELSE ctx

\* No function is under study, or it was not applied yet.
NoFn == [fn |-> "none"]

\* No thread is inside a battery counter call.  A call in progress is a
\* record: its thread t, its position pc ("insert": the SELECT found no row
\* and the INSERT is next; "have": the counter is known and the UPDATE is
\* next), the id selected and the power w to account for.
NoThreads == {}

InitFn(backends, tables, inputs) ==
    /\ now = BootTime
    /\ nticks = 0
    /\ started = FALSE
    /\ CONF = DefaultConf
    /\ GPIO_BACKEND \in backends
    /\ pin_level = "unset"
    /\ RELAY_STATE = "unknown"
    /\ RELAY_LAST_TOGGLE = 0
    /\ samples = {}
    /\ archive = {}
    /\ battery_counters = <<>>
    /\ mem_last = None
    /\ last_keys = {}
    /\ stop = FALSE
    /\ poll_done = FALSE
    /\ day_samples \in tables
    /\ daily_analysis = {}
    /\ pending = NoPending
    /\ lastOp = NoOp
    /\ relay_changed_at = None
    /\ scen = NoScen
    /\ upd_count = <<>>
    /\ last_archive = None
    /\ gpio_ctx = NoGpio
    /\ thr = NoThreads
    /\ fn_in \in inputs
    /\ fn_out = NoFn

InitState(backends, tables) == InitFn(backends, tables, {NoFn})

InitWith(backends) == InitState(backends, {{}})

\* History: the clock at the last change of RELAY_STATE.
ChangedAt(st2) == IF st2 # RELAY_STATE THEN now ELSE relay_changed_at

\* History: the update counts, extended with a zero entry per new row and
\* increased for the row whose totals changed.
ZeroCount == [plus |-> 0, minus |-> 0, other |-> 0]

CountsFor(rows2, id, w) ==
    LET ext == [i \in DOMAIN rows2 |->
                   IF i \in DOMAIN upd_count THEN upd_count[i] ELSE ZeroCount]
    IN  IF w = None \/ w = 0 \/ id = 0 THEN ext
        ELSE IF w = PRef THEN [ext EXCEPT ![id].plus = @ + 1]
        ELSE IF w = -PRef THEN [ext EXCEPT ![id].minus = @ + 1]
        ELSE [ext EXCEPT ![id].other = @ + 1]

\* History: the scenario monitor.  It follows consecutive automatic steps
\* that start from OFF under the default thresholds, feed the voltages of
\* Traj and are spaced by at least min_gap; log holds the state after each.
ScenStep(v, st2) ==
    LET n == Len(scen.log)
        defaults == CONF.on_v = DEFAULT_ON_V /\ CONF.off_v = DEFAULT_OFF_V
    IN  IF n > 0 /\ n < Len(Traj) /\ v = Traj[n + 1] /\ defaults
           /\ (now - scen.t) >= min_gap(CONF)
        THEN [log |-> Append(scen.log, st2), t |-> now]
        ELSE IF v = Traj[1] /\ RELAY_STATE = "off" /\ defaults
        THEN [log |-> <<st2>>, t |-> now]
        ELSE NoScen

\* -------------------------------------------------------------- actions
\* main(): db_init(), relay_setup(), start of poll_loop and of the HTTP app.
Main ==
    /\ ~started
    /\ UNCHANGED <<fn_in, fn_out, thr>>
    /\ \E hn \in FreshHandles(gpio_ctx, GPIO_BACKEND) :
          gpio_ctx' = gpio_after(gpio_ctx, GPIO_BACKEND, "setup", hn)
    /\ UNCHANGED <<last_keys, stop, poll_done, day_samples, daily_analysis>>
    /\ LET rs == relay_setup(CONF, GPIO_BACKEND, RELAY_STATE, RELAY_LAST_TOGGLE,
                             pin_level, now)
       IN  /\ RELAY_STATE' = rs.state
           /\ RELAY_LAST_TOGGLE' = rs.last
           /\ pin_level' = rs.pin
           /\ relay_changed_at' = ChangedAt(rs.state)
    /\ started' = TRUE
    /\ lastOp' = [NoOp EXCEPT !.op = "main"]
    /\ UNCHANGED <<now, nticks, CONF, GPIO_BACKEND, samples, archive,
                   battery_counters, mem_last, pending, scen, upd_count, last_archive>>

\* The clock advances by d seconds: the n-th advance of a run is by
\* steps[n], cyclically (steps is a non-empty sequence), at most max_ticks
\* times.
StepOf(steps, n) == steps[(n % Len(steps)) + 1]

Tick(d, max_ticks) ==
    /\ started
    /\ UNCHANGED <<fn_in, fn_out, thr>>
    /\ UNCHANGED gpio_ctx
    /\ UNCHANGED <<last_keys, stop, poll_done, day_samples, daily_analysis>>
    /\ nticks < max_ticks
    /\ now' = now + d
    /\ nticks' = nticks + 1
    /\ lastOp' = [NoOp EXCEPT !.op = "tick"]
    /\ UNCHANGED <<started, CONF, GPIO_BACKEND, pin_level, RELAY_STATE,
                   RELAY_LAST_TOGGLE, samples, archive, battery_counters,
                   mem_last, pending, relay_changed_at, scen, upd_count, last_archive>>

\* Mutant of loop_continues: an exception of the store ends poll_loop.
loop_continues_unless_db(exc) == exc # "insert"

\* try ... except Exception: pass around the body of a cycle: whether
\* poll_loop goes on to the next loop test after exception exc of the cycle.
loop_continues(exc) == TRUE

\* Mutant of loop_test: the loop does not look at _stop.
loop_test_ignores_stop(stop_set) == TRUE

\* while not _stop.is_set()
loop_test(stop_set) == ~stop_set

\* The exceptions of a cycle after a successful read: of i2c_read_all, of
\* the sample insert, of relay_auto_step, of the battery counter block.
CycleErrors == {"i2c", "insert", "relay", "counter"}

\* The rest of a poll cycle after a successful read, ts being ts_now: _last,
\* the sample insert, relay_auto_step, check_battery_reset_condition,
\* update_battery_counter.  Exception err (or "none") is raised in the cycle:
\* the exception of the insert abandons the cycle, those of the relay step
\* and of the counter block are caught around their own step, which is
\* taken to have had no effect.
PollStepsAt(rr, po, so, ts, err, whole) ==
    LET s   == rr.vals
        row == [timestamp |-> ts, pv_w |-> s.pv_w, battery_w |-> s.battery_w,
                load_w |-> s.load_w, grid_w |-> s.grid_w]
        rel == relay_auto_step(s.battery_v, CONF, GPIO_BACKEND, RELAY_STATE,
                               RELAY_LAST_TOGGLE, pin_level, now)
        chk == check_battery_reset_condition(s.battery_v, s.battery_w,
                                             CONF.net_reset_voltage,
                                             battery_counters, now)
        upd == s.battery_w # None /\ s.battery_v # None
        relay_ran   == err \notin {"insert", "relay"}
        counter_ran == err \notin {"insert", "counter"}
    IN  /\ mem_last' = ts
        /\ last_keys' = SampleKeys
        /\ samples' = IF err = "insert" THEN samples
                      ELSE insert_or_ignore(samples, row)
        /\ IF relay_ran
           THEN /\ RELAY_STATE' = rel.state
                /\ RELAY_LAST_TOGGLE' = rel.last
                /\ pin_level' = rel.pin
                /\ relay_changed_at' = ChangedAt(rel.state)
                /\ scen' = IF CONF.enabled /\ s.battery_v # None
                           THEN ScenStep(s.battery_v, rel.state) ELSE NoScen
                /\ \E hn \in FreshHandles(gpio_ctx, GPIO_BACKEND) :
                      gpio_ctx' = gpio_after(gpio_ctx, GPIO_BACKEND,
                                     IF relay_auto_applies(s.battery_v, CONF,
                                            RELAY_STATE, RELAY_LAST_TOGGLE, now)
                                     THEN "write" ELSE "none", hn)
           ELSE /\ UNCHANGED <<RELAY_STATE, RELAY_LAST_TOGGLE, pin_level,
                               relay_changed_at, gpio_ctx>>
                /\ scen' = NoScen
        /\ IF counter_ran
           THEN /\ Len(chk.rows) <= MaxCounters
                /\ total_energy(chk.rows)
                      + Abs(energy_wh(IF upd THEN s.battery_w ELSE 0))
                      <= MaxUpdates * energy_wh(PRef)
                /\ IF whole
                   THEN /\ \E pick \in (IF chk.rows = <<>> THEN {1}
                                         ELSE current_ids(chk.rows)) :
                              /\ battery_counters' =
                                    update_battery_counter(s.battery_w, s.battery_v,
                                                           chk.rows, now, pick)
                              /\ upd_count' = CountsFor(battery_counters',
                                                        IF upd THEN pick ELSE 0,
                                                        s.battery_w)
                        /\ UNCHANGED thr
                   ELSE /\ battery_counters' = chk.rows
                        /\ upd_count' = CountsFor(battery_counters', 0, None)
                        /\ IF upd
                           THEN \E c \in counter_select("poll", s.battery_w,
                                                        chk.rows) :
                                    thr' = thr \cup {c}
                           ELSE UNCHANGED thr
           ELSE UNCHANGED <<battery_counters, upd_count, thr>>
        /\ last_archive' = IF samples' # samples THEN None ELSE last_archive
        /\ lastOp' = [NoOp EXCEPT !.op = "poll", !.ok = TRUE, !.src = rr.src,
                        !.attempts = rr.attempts, !.po = po, !.so = so,
                        !.v = s.battery_v, !.w = s.battery_w, !.pv = s.pv_w,
                        !.reset = counter_ran /\ chk.ret,
                        !.prev = RELAY_STATE, !.err = err,
                        !.steps = IF err = "insert" THEN 0 ELSE 1]

\* The cycle run to its end.
PollSteps(rr, po, so, ts, err) == PollStepsAt(rr, po, so, ts, err, TRUE)

\* A cycle after a successful read in which nothing raises.
PollOk(rr, po, so, ts) == PollSteps(rr, po, so, ts, "none")

\* The exception of a cycle that reaches the except clause of poll_loop.
outer_exception(rr, err) ==
    IF rr.raised THEN "read"
    ELSE IF rr.ok /\ err = "insert" THEN "insert"
    ELSE "none"

\* The rest of a poll cycle whose read returned None (only _last may be
\* initialised) or raised (the cycle is abandoned).
PollFail(rr, po, so, ts) ==
    /\ mem_last' = IF mem_last = None /\ ~rr.raised THEN ts ELSE mem_last
    /\ UNCHANGED last_keys
    /\ lastOp' = [NoOp EXCEPT !.op = "poll", !.src = rr.src,
                    !.attempts = rr.attempts, !.po = po, !.so = so,
                    !.raised = rr.raised]
    /\ UNCHANGED <<samples, RELAY_STATE, RELAY_LAST_TOGGLE, pin_level,
                   relay_changed_at, scen, battery_counters, upd_count,
                   last_archive, gpio_ctx, thr>>

\* The poll thread is not inside a battery counter call.
poll_idle == \A c \in thr : c.t # "poll"

\* One cycle of poll_loop, run without another thread in between: to its end
\* (whole), or up to the SELECT of update_battery_counter, the rest of the
\* call being left to CounterInsert and CounterUpdate.
PollAt(po, so, dev, whole) ==
    /\ started
    /\ UNCHANGED <<fn_in, fn_out>>
    /\ loop_test(stop) /\ ~poll_done
    /\ pending = NoPending
    /\ poll_idle
    /\ UNCHANGED <<stop, day_samples, daily_analysis>>
    /\ LET rr == read_regs(po, so, dev)
       IN  /\ IF rr.ok THEN PollStepsAt(rr, po, so, now, "none", whole)
                       ELSE PollFail(rr, po, so, now)
           /\ poll_done' = ~loop_continues(outer_exception(rr, "none"))
    /\ UNCHANGED <<now, nticks, started, CONF, GPIO_BACKEND, archive, pending>>

Poll(po, so, dev) == PollAt(po, so, dev, TRUE)

\* The head of a poll cycle: regs = read_regs(); ts_now = now_str().  The
\* HTTP threads do not take _lock, so their handlers can run before the rest.
PollReadErr(po, so, dev, err) ==
    /\ started
    /\ UNCHANGED <<fn_in, fn_out, thr>>
    /\ UNCHANGED gpio_ctx
    /\ loop_test(stop) /\ ~poll_done
    /\ pending = NoPending
    /\ poll_idle
    /\ UNCHANGED <<last_keys, stop, poll_done, day_samples, daily_analysis>>
    /\ pending' = [ts |-> now, po |-> po, so |-> so, dev |-> dev, err |-> err]
    /\ lastOp' = [NoOp EXCEPT !.op = "poll_read"]
    /\ UNCHANGED <<now, nticks, started, CONF, GPIO_BACKEND, pin_level,
                   RELAY_STATE, RELAY_LAST_TOGGLE, samples, archive,
                   battery_counters, mem_last, relay_changed_at, scen,
                   upd_count, last_archive>>

\* The head of a cycle in which nothing raises after the read.
PollRead(po, so, dev) == PollReadErr(po, so, dev, "none")

\* The rest of the poll cycle begun by PollRead.
PollWrite ==
    /\ started
    /\ UNCHANGED <<fn_in, fn_out>>
    /\ pending # NoPending
    /\ UNCHANGED <<stop, day_samples, daily_analysis>>
    /\ LET rr == read_regs(pending.po, pending.so, pending.dev)
       IN  /\ IF rr.ok
              THEN PollSteps(rr, pending.po, pending.so, pending.ts, pending.err)
              ELSE PollFail(rr, pending.po, pending.so, pending.ts)
           /\ poll_done' = ~loop_continues(outer_exception(rr, pending.err))
    /\ pending' = NoPending
    /\ UNCHANGED <<now, nticks, started, CONF, GPIO_BACKEND, archive>>

\* POST /api/relay/on and POST /api/relay/off.
RelayManual(hw_on) ==
    /\ started
    /\ ~gpio_ctx.exited
    /\ UNCHANGED <<fn_in, fn_out, thr>>
    /\ \E hn \in FreshHandles(gpio_ctx, GPIO_BACKEND) :
          gpio_ctx' = gpio_after(gpio_ctx, GPIO_BACKEND, "write", hn)
    /\ UNCHANGED <<last_keys, stop, poll_done, day_samples, daily_analysis>>
    /\ LET ra == relay_apply(hw_on, CONF, GPIO_BACKEND, pin_level, now)
       IN  /\ RELAY_STATE' = ra.state
           /\ RELAY_LAST_TOGGLE' = ra.last
           /\ pin_level' = ra.pin
           /\ relay_changed_at' = ChangedAt(ra.state)
    /\ scen' = NoScen
    /\ lastOp' = [NoOp EXCEPT !.op = IF hw_on THEN "relay_on" ELSE "relay_off"]
    /\ UNCHANGED <<now, nticks, started, CONF, GPIO_BACKEND, samples,
                   archive, battery_counters, mem_last, pending, upd_count, last_archive>>

\* POST /api/config with body data: validate, assign, and with persist
\* (and a changed key) run relay_setup() again.
ConfigPost(data) ==
    /\ started
    /\ ~gpio_ctx.exited
    /\ UNCHANGED <<fn_in, fn_out, thr>>
    /\ \E hn \in FreshHandles(gpio_ctx, GPIO_BACKEND) :
          gpio_ctx' = gpio_after(gpio_ctx, GPIO_BACKEND,
                                 IF validate_config(data) /\ data.persist
                                    /\ data.keys # {}
                                 THEN "setup" ELSE "none", hn)
    /\ UNCHANGED <<last_keys, stop, poll_done, day_samples, daily_analysis>>
    /\ IF validate_config(data)
       THEN LET cfg == apply_config(CONF, data)
                rs  == IF data.persist /\ data.keys # {}
                       THEN relay_setup(cfg, GPIO_BACKEND, RELAY_STATE,
                                        RELAY_LAST_TOGGLE, pin_level, now)
                       ELSE [state |-> RELAY_STATE, last |-> RELAY_LAST_TOGGLE,
                             pin |-> pin_level]
            IN  /\ CONF' = cfg
                /\ RELAY_STATE' = rs.state
                /\ RELAY_LAST_TOGGLE' = rs.last
                /\ pin_level' = rs.pin
                /\ relay_changed_at' = ChangedAt(rs.state)
                /\ lastOp' = [NoOp EXCEPT !.op = "config", !.accepted = TRUE]
       ELSE /\ lastOp' = [NoOp EXCEPT !.op = "config"]
            /\ UNCHANGED <<CONF, RELAY_STATE, RELAY_LAST_TOGGLE, pin_level,
                           relay_changed_at>>
    /\ scen' = NoScen
    /\ UNCHANGED <<now, nticks, started, GPIO_BACKEND, samples, archive,
                   battery_counters, mem_last, pending, upd_count, last_archive>>

\* POST /api/battery/reset with the reason of the body.
BatteryReset(reason) ==
    /\ started
    /\ UNCHANGED <<fn_in, fn_out, thr>>
    /\ UNCHANGED gpio_ctx
    /\ UNCHANGED <<last_keys, stop, poll_done, day_samples, daily_analysis>>
    /\ Len(battery_counters) < MaxCounters
    /\ battery_counters' = reset_battery_counter(reason, battery_counters, now)
    /\ upd_count' = CountsFor(battery_counters', 0, None)
    /\ lastOp' = [NoOp EXCEPT !.op = "battery_reset"]
    /\ UNCHANGED <<now, nticks, started, CONF, GPIO_BACKEND, pin_level,
                   RELAY_STATE, RELAY_LAST_TOGGLE, samples, archive, mem_last, pending,
                   relay_changed_at, scen, last_archive>>

\* GET /api/battery/status and GET /api/totals/today: both call
\* get_current_battery_counter(), which creates the first row.
BatteryStatus ==
    /\ started
    /\ UNCHANGED <<fn_in, fn_out, thr>>
    /\ UNCHANGED gpio_ctx
    /\ UNCHANGED <<last_keys, stop, poll_done, day_samples, daily_analysis>>
    /\ battery_counters' = get_current_battery_counter(battery_counters, now)
    /\ upd_count' = CountsFor(battery_counters', 0, None)
    /\ lastOp' = [NoOp EXCEPT !.op = "battery_status"]
    /\ UNCHANGED <<now, nticks, started, CONF, GPIO_BACKEND, pin_level,
                   RELAY_STATE, RELAY_LAST_TOGGLE, samples, archive, mem_last, pending,
                   relay_changed_at, scen, last_archive>>

\* History: the step before was a dry run of the archival with this cutoff
\* (lastOp.minutes and lastOp.days are the counts a dry run reported).
DryRunBefore(cutoff) ==
    lastOp.op = "archive" /\ ~lastOp.apply /\ lastOp.cutoff = cutoff

\* POST /api/maintenance/archive: scope=upto_today or days (clamped to
\* 1..3650), with or without dry_run.
MaintenanceArchive(upto_today, days, dry_run) ==
    /\ started
    /\ UNCHANGED <<fn_in, fn_out, thr>>
    /\ UNCHANGED gpio_ctx
    /\ UNCHANGED <<last_keys, stop, poll_done, day_samples, daily_analysis>>
    /\ LET cutoff == IF upto_today THEN cutoff_today(now)
                     ELSE cutoff_days(now, Max(1, Min(MAX_DAYS, days)))
           res == archive_compute_and_apply(samples, archive, cutoff, ~dry_run)
       IN  /\ samples' = res.samples
           /\ archive' = res.archive
           /\ last_archive' = IF dry_run THEN last_archive ELSE cutoff
           /\ lastOp' = [NoOp EXCEPT !.op = "archive", !.cutoff = cutoff,
                           !.apply = ~dry_run,
                           !.repeat = (~dry_run /\ last_archive = cutoff),
                           !.minutes = IF dry_run THEN res.minutes_to_delete
                                       ELSE 0,
                           !.days = IF dry_run THEN res.days_to_archive ELSE 0,
                           !.after = IF ~dry_run /\ DryRunBefore(cutoff)
                                     THEN "dry_run" ELSE "init"]
    /\ UNCHANGED <<now, nticks, started, CONF, GPIO_BACKEND, pin_level,
                   RELAY_STATE, RELAY_LAST_TOGGLE, battery_counters, mem_last, pending,
                   relay_changed_at, scen, upd_count>>

\* db_archive_and_trim(days) and db_archive_upto_today().
DbArchive(upto_today, days) ==
    /\ started
    /\ UNCHANGED <<fn_in, fn_out, thr>>
    /\ UNCHANGED gpio_ctx
    /\ UNCHANGED <<last_keys, stop, poll_done, day_samples, daily_analysis>>
    /\ LET cutoff == IF upto_today THEN cutoff_today(now)
                     ELSE cutoff_days(now, days)
           res == db_archive(samples, archive, cutoff)
       IN  /\ samples' = res.samples
           /\ archive' = res.archive
           /\ last_archive' = cutoff
           /\ lastOp' = [NoOp EXCEPT !.op = "db_archive", !.cutoff = cutoff,
                           !.apply = TRUE, !.repeat = (last_archive = cutoff)]
    /\ UNCHANGED <<now, nticks, started, CONF, GPIO_BACKEND, pin_level,
                   RELAY_STATE, RELAY_LAST_TOGGLE, battery_counters, mem_last, pending,
                   relay_changed_at, scen, upd_count>>

\* ------------------------------------------------------- request bodies
\* A JSON body of POST /api/config: K are the keys it carries.
Body(K, on, off, mts, en, ah, nrv, persist) ==
    [keys |-> K, on_v |-> on, off_v |-> off, min_toggle_sec |-> mts,
     enabled |-> en, active_high |-> ah, net_reset_voltage |-> nrv,
     persist |-> persist]

\* The device values of one read.
Dev(pv, bw, bv, lw, gw) ==
    [pv_w |-> pv, battery_w |-> bw, battery_v |-> bv, load_w |-> lw, grid_w |-> gw]

\* ------------------------------------------- specification: relay control
RelayOnVs == {DEFAULT_ON_V, 500}

RelayOffVs == {DEFAULT_OFF_V}

RelayVolts == {460, 470, 480, 490, 500}

RelaySteps == <<POLL_S>>

RelayBodies ==
    {Body({}, DEFAULT_ON_V, DEFAULT_OFF_V, 5, TRUE, TRUE, DEFAULT_NET_RESET_V, TRUE)}
    \cup {Body({"enabled"}, DEFAULT_ON_V, DEFAULT_OFF_V, 5, e, TRUE, DEFAULT_NET_RESET_V, p)
            : e \in BOOLEAN, p \in BOOLEAN}
    \cup {Body({"on_v"}, a, DEFAULT_OFF_V, 5, TRUE, TRUE, DEFAULT_NET_RESET_V, FALSE)
            : a \in RelayOnVs}
    \cup {Body({"off_v"}, DEFAULT_ON_V, b, 5, TRUE, TRUE, DEFAULT_NET_RESET_V, FALSE)
            : b \in RelayOffVs}
    \cup {Body({"on_v", "off_v"}, a, b, 5, TRUE, TRUE, DEFAULT_NET_RESET_V, FALSE)
            : a \in RelayOnVs, b \in RelayOffVs}
    \cup {Body({"min_toggle_sec"}, DEFAULT_ON_V, DEFAULT_OFF_V, m, TRUE, TRUE,
               DEFAULT_NET_RESET_V, FALSE) : m \in {-1, 5, 10}}

InitRelay == InitWith({"rpi", "none"})

TickRelay == Tick(StepOf(RelaySteps, nticks), MaxTicks)

PollRelay == \E v \in RelayVolts : Poll("ok", "ok", Dev(0, 0, v, 0, 0))

RelayOn == RelayManual(TRUE)

RelayOff == RelayManual(FALSE)

ConfigRelay == \E data \in RelayBodies : ConfigPost(data)

NextRelay == Main \/ TickRelay \/ PollRelay \/ RelayOn \/ RelayOff \/ ConfigRelay

SpecRelay == InitRelay /\ [][NextRelay]_vars

\* A poll cycle that ran relay_auto_step's decision (relay enabled, a
\* battery voltage read) happens in this step.
AutoStep ==
    /\ lastOp'.op = "poll"
    /\ lastOp'.ok
    /\ CONF.enabled
    /\ lastOp'.v # None

\* C1: relay_auto_step changes the tracked relay state only when at least
\* min_toggle_sec seconds have elapsed since the last change of the relay
\* state of any kind (automatic, manual or setup), so an automatic transition
\* never follows another transition within min_toggle_sec.
C1_AntiChatter ==
    [][(AutoStep /\ RELAY_STATE' # RELAY_STATE /\ relay_changed_at # None)
        => (now - relay_changed_at) >= CONF.min_toggle_sec]_vars

\* C1 witness: with min_toggle_sec = 5 the relay, switched ON before, has
\* just been switched OFF by an automatic step.
C1_Witness ==
    /\ lastOp.op = "poll"
    /\ lastOp.prev = "on"
    /\ RELAY_STATE = "off"
    /\ relay_changed_at = now
    /\ CONF.min_toggle_sec = 5

\* C2: with the relay enabled, relay_auto_step follows the hysteresis rule:
\* OFF -> ON only if batt_v <= on_v, ON -> OFF only if batt_v >= off_v; from
\* unknown, once the anti-chatter gap has passed, ON if batt_v <= on_v,
\* else OFF if batt_v >= off_v, else no command; for on_v < batt_v < off_v
\* the state never changes; and the trajectory 50, 47, 48, 46 V from OFF
\* under on_v = 47.5, off_v = 49.0 gives exactly one transition, ON at 47.
C2_Hysteresis ==
    [][AutoStep =>
            LET v == lastOp'.v
                gap == (now - RELAY_LAST_TOGGLE) >= Max(0, CONF.min_toggle_sec)
            IN  /\ (RELAY_STATE = "off" /\ RELAY_STATE' # "off") =>
                        (RELAY_STATE' = "on" /\ v <= CONF.on_v)
                /\ (RELAY_STATE = "on" /\ RELAY_STATE' # "on") =>
                        (RELAY_STATE' = "off" /\ v >= CONF.off_v)
                /\ (RELAY_STATE = "unknown" /\ gap) =>
                        RELAY_STATE' = (IF v <= CONF.on_v THEN "on"
                                        ELSE IF v >= CONF.off_v THEN "off"
                                        ELSE "unknown")
                /\ (RELAY_STATE = "unknown" /\ ~gap) => RELAY_STATE' = "unknown"
                /\ (CONF.on_v < v /\ v < CONF.off_v) => RELAY_STATE' = RELAY_STATE
                /\ Len(scen'.log) = Len(Traj) =>
                        scen'.log = <<"off", "on", "on", "on">>
       ]_vars

\* C2 witness: the whole trajectory 50, 47, 48, 46 V has been fed.
C2_Witness == Len(scen.log) = Len(Traj)

\* C9: the relay thresholds used by relay_auto_step satisfy off_v > on_v
\* after any sequence of accepted POST /api/config updates.
C9_Thresholds == CONF.off_v > CONF.on_v

\* ----------------------------------------- specification: battery counter
BattPowers == {-PRef, 0, PRef}

BattSteps == <<RESET_DEBOUNCE_S>>

BattReasons == {"manual", NULL}

InitBatt == InitWith({"none"})

TickBatt == Tick(StepOf(BattSteps, nticks), MaxBattTicks)

PollBatt ==
    \E w \in BattPowers : Poll("ok", "ok", Dev(0, w, DEFAULT_NET_RESET_V, 0, 0))

ResetBatt == \E reason \in BattReasons : BatteryReset(reason)

NextBatt == Main \/ TickBatt \/ PollBatt \/ ResetBatt \/ BatteryStatus

SpecBatt == InitBatt /\ [][NextBatt]_vars

\* ------------------------------------------- specification: automatic reset
ResetPowers == {-PRef, 0}

ResetVolts == {DEFAULT_NET_RESET_V, 465}

ResetSteps == <<RESET_DEBOUNCE_S - 1, 1>>

ResetBodies ==
    {Body({"net_reset_voltage"}, DEFAULT_ON_V, DEFAULT_OFF_V, 5, FALSE, TRUE, nrv, FALSE)
        : nrv \in {250, DEFAULT_NET_RESET_V, 465}}

InitReset == InitWith({"none"})

TickReset == Tick(StepOf(ResetSteps, nticks), MaxResetTicks)

PollReset ==
    \E w \in ResetPowers, v \in ResetVolts : Poll("ok", "ok", Dev(0, w, v, 0, 0))

ResetManual == BatteryReset("manual")

ConfigReset == \E data \in ResetBodies : ConfigPost(data)

NextReset == Main \/ TickReset \/ PollReset \/ ResetManual \/ ConfigReset

SpecReset == InitReset /\ [][NextReset]_vars

\* The rows of battery_counters whose reset_reason is NULL.
OpenRows == {i \in DOMAIN battery_counters : battery_counters[i].reset_reason = NULL}

\* C3: every open daily_net row has total_batt_net_Wh = total_batt_in_Wh -
\* total_batt_out_Wh, and a row that received equally many +P and -P updates
\* (and no other) has total_batt_in_Wh = total_batt_out_Wh and net 0.
C3_NetIsInMinusOut ==
    \A i \in OpenRows :
        LET r == battery_counters[i]
            c == upd_count[i]
        IN  /\ r.total_batt_net_Wh = r.total_batt_in_Wh - r.total_batt_out_Wh
            /\ (c.other = 0 /\ c.plus = c.minus) =>
                    (r.total_batt_in_Wh = r.total_batt_out_Wh
                     /\ r.total_batt_net_Wh = 0)

\* C3 witness: the open row created by a reset has received as many +P as
\* -P updates (at least one of each).
C3_Witness ==
    \E i \in OpenRows :
        /\ i >= 2
        /\ upd_count[i].plus >= 1
        /\ upd_count[i].plus = upd_count[i].minus
        /\ battery_counters[i].total_batt_in_Wh > 0

\* C4: battery_counters holds at most one daily_net row whose reset_reason
\* is NULL, exactly one once a counter has been created.
C4_OneOpenRow ==
    /\ Cardinality(OpenRows) <= 1
    /\ (battery_counters # <<>> => Cardinality(OpenRows) = 1)

\* C5: a poll cycle resets the counter if and only if battery_w < 0 and
\* battery_v <= the configured threshold and the most recent daily_net row
\* started at least 3600 s ago (or no row exists); so every automatic reset
\* comes at least 3600 s after every earlier counter creation or reset.
C5_ResetCondition ==
    [][(lastOp'.op = "poll" /\ lastOp'.ok) =>
        LET v == lastOp'.v
            w == lastOp'.w
            cond == /\ v # None /\ w # None
                    /\ w < 0
                    /\ v <= CONF.net_reset_voltage
                    /\ (battery_counters = <<>>
                        \/ \A i \in DOMAIN battery_counters :
                              now - battery_counters[i].start_timestamp
                                  >= RESET_DEBOUNCE_S)
            added == Len(battery_counters') = Len(battery_counters) + 1
        IN  /\ lastOp'.reset <=> cond
            /\ battery_counters # <<>> => (added <=> cond)
            /\ (battery_counters # <<>> /\ added) =>
                  /\ battery_counters'[Len(battery_counters')].start_timestamp = now
                  /\ \A i \in DOMAIN battery_counters :
                        battery_counters'[i].reset_reason # NULL
       ]_vars

\* C5 witness: a poll cycle has just reset a counter that existed before.
C5_Witness ==
    /\ lastOp.op = "poll"
    /\ lastOp.reset
    /\ Len(battery_counters) >= 2
    /\ battery_counters[Len(battery_counters)].start_timestamp = now

\* ------------------------------------------ specification: sample store
StoreDevs == {Dev(60, 0, 480, 0, 0), Dev(120, 0, 480, 0, 0)}

\* 00:00:00, 00:00:30 and 23:59:59 of one day, then 00:00:00 of the next.
StoreSteps == <<30, SECONDS_PER_DAY - 31, 1>>

StoreDays == {0}

InitStore == InitWith({"none"})

TickStore == Tick(StepOf(StoreSteps, nticks), MaxStoreTicks)

PollReadStore == \E dev \in StoreDevs : PollRead("ok", "ok", dev)

ArchiveStore ==
    \E upto_today \in BOOLEAN, days \in StoreDays, dry_run \in BOOLEAN :
        MaintenanceArchive(upto_today, days, dry_run)

DbArchiveStore == \E upto_today \in BOOLEAN : DbArchive(upto_today, 1)

NextStore ==
    Main \/ TickStore \/ PollReadStore \/ PollWrite \/ ArchiveStore
         \/ DbArchiveStore

SpecStore == InitStore /\ [][NextStore]_vars

\* The step is the rest of a poll cycle after a successful read.
PollInsertStep == lastOp'.op = "poll" /\ lastOp'.ok

\* ts_now of the poll cycle whose rest runs in this step.
PollTs == IF pending # NoPending THEN pending.ts ELSE now

\* C6: a poll cycle whose timestamp already has a row in samples leaves the
\* table as it was: no row is added and the existing row keeps its values.
C6_DuplicateIgnored ==
    [][(PollInsertStep /\ \E r \in samples : r.timestamp = PollTs)
        => samples' = samples]_vars

\* C6 witness: the insert of the last poll cycle was ignored, and the row
\* stored under its timestamp holds another PV power than the cycle read.
C6_Witness ==
    /\ lastOp.op = "poll"
    /\ lastOp.ok
    /\ \E r \in samples : r.timestamp = mem_last /\ r.pv_w # lastOp.pv

\* C7: an applied archival run with the cutoff of the applied run before it,
\* no sample inserted in between, finds no sample row to delete and leaves
\* samples and archive as they were.
C7_ArchiveIdempotent ==
    [][lastOp'.repeat =>
        /\ count_older(samples, lastOp'.cutoff) = 0
        /\ samples' = samples
        /\ archive' = archive]_vars

\* C7 witness: an applied run has just repeated the run that archived a day.
C7_Witness ==
    /\ lastOp.repeat
    /\ \E a \in archive : a.day < DayOf(lastOp.cutoff)

\* C8: no day has both a row in archive and a row in samples.
C8_NoOverlap ==
    \A a \in archive : ~(\E r \in samples : DayOf(r.timestamp) = a.day)

\* -------------------------------------------- specification: register read
ReadPrimary == {"unavail", "raise", "connfail", "blockerr", "ok"}

ReadSecondary == {"unavail", "exc", "allnone", "nobattv", "ok"}

ReadDevs == {Dev(60, 0, 480, 0, 0)}

ReadSteps == <<POLL_S>>

InitRead == InitWith({"none"})

TickRead == Tick(StepOf(ReadSteps, nticks), MaxReadTicks)

PollReadRead ==
    \E po \in ReadPrimary, so \in ReadSecondary, dev \in ReadDevs :
        PollRead(po, so, dev)

NextRead == Main \/ TickRead \/ PollReadRead \/ PollWrite

SpecRead == InitRead /\ [][NextRead]_vars

\* The outcomes of the primary driver that make read_regs fall back.
PrimaryFailed == {"unavail", "connfail", "blockerr"}

\* C10: in one read_regs call the secondary driver runs at most once and
\* only after a primary failure, never after a primary success; read_regs
\* returns None only when the primary failed and the secondary is missing or
\* failed; otherwise it returns the values of the first driver that succeeded.
C10_SingleFallback ==
    [][(lastOp'.op = "poll" /\ pending # NoPending) =>
        LET po == pending.po
            so == pending.so
            dev == pending.dev
            sec == read_regs_minimalmodbus(so, dev)
            r == lastOp'
        IN  /\ r.attempts <= 1
            /\ r.attempts = 1 => po \in PrimaryFailed
            /\ po = "ok" => (r.attempts = 0 /\ r.ok /\ r.src = "primary")
            /\ (~r.ok /\ ~r.raised) =>
                    (po \in PrimaryFailed /\ (so = "unavail" \/ ~sec.ok))
            /\ (po \in PrimaryFailed /\ so # "unavail" /\ sec.ok) =>
                    (r.ok /\ r.src = "secondary" /\ r.attempts = 1)
            /\ (r.ok /\ r.src = "primary") =>
                    (r.v = dev.battery_v /\ r.w = dev.battery_w)
            /\ (r.ok /\ r.src = "secondary") =>
                    (r.v = sec.vals.battery_v /\ r.w = sec.vals.battery_w)
       ]_vars

\* C10 witness: a block read of the primary driver failed and the one
\* attempt of the secondary driver supplied the values of the cycle.
C10_Witness ==
    /\ lastOp.op = "poll"
    /\ lastOp.po = "blockerr"
    /\ lastOp.attempts = 1
    /\ lastOp.ok
    /\ lastOp.src = "secondary"
    /\ lastOp.v # None

\* ------------------------------------------------------------ claims C11..
\* The read of the pending poll cycle obtained no register value: read_regs
\* returned None or raised, or every read_register of the secondary failed.
NoValueRead == read_regs(pending.po, pending.so, pending.dev).vals = NoVals

\* C11: a poll cycle in which neither driver obtained a register value
\* leaves _last (once it is set) as it was, inserts no row into samples and
\* changes neither the battery counter nor the relay.
C11_FailedReadKeepsState ==
    [][(lastOp'.op = "poll" /\ pending # NoPending /\ NoValueRead) =>
        /\ mem_last # None => (mem_last' = mem_last /\ last_keys' = last_keys)
        /\ samples' = samples
        /\ battery_counters' = battery_counters
        /\ RELAY_STATE' = RELAY_STATE
        /\ RELAY_LAST_TOGGLE' = RELAY_LAST_TOGGLE
        /\ pin_level' = pin_level]_vars

\* C12: once main has run relay_setup, RELAY_STATE is OFF, for every GPIO
\* backend availability; it is never left unknown.
C12_SetupForcesOff == lastOp.op = "main" => RELAY_STATE = "off"

\* ------------------------------------------ specification: manual commands
ManualVolts == {470, 500}

ManualSteps == <<POLL_S>>

ManualBodies ==
    {Body({"enabled"}, DEFAULT_ON_V, DEFAULT_OFF_V, 5, TRUE, TRUE,
          DEFAULT_NET_RESET_V, FALSE)}
    \cup {Body({"active_high"}, DEFAULT_ON_V, DEFAULT_OFF_V, 5, FALSE, ah,
               DEFAULT_NET_RESET_V, p) : ah \in BOOLEAN, p \in BOOLEAN}

InitManual == InitWith({"rpi", "none"})

TickManual == Tick(StepOf(ManualSteps, nticks), MaxManualTicks)

PollManual == \E v \in ManualVolts : Poll("ok", "ok", Dev(0, 0, v, 0, 0))

ManualOn == RelayManual(TRUE)

ManualOff == RelayManual(FALSE)

ConfigManual == \E data \in ManualBodies : ConfigPost(data)

NextManual ==
    Main \/ TickManual \/ PollManual \/ ManualOn \/ ManualOff \/ ConfigManual

SpecManual == InitManual /\ [][NextManual]_vars

\* C13: a manual relay command always takes effect: with a GPIO backend the
\* pin is written HIGH iff the commanded state equals active_high, RELAY_STATE
\* becomes the commanded value and RELAY_LAST_TOGGLE the time of the command;
\* an automatic step less than min_toggle_sec after it changes nothing.
C13_ManualCommand ==
    [][/\ (lastOp'.op \in {"relay_on", "relay_off"}) =>
            LET on == lastOp'.op = "relay_on"
            IN  /\ RELAY_STATE' = (IF on THEN "on" ELSE "off")
                /\ RELAY_LAST_TOGGLE' = now
                /\ GPIO_BACKEND # "none" =>
                      pin_level' = (IF on = CONF.active_high THEN "high" ELSE "low")
                /\ GPIO_BACKEND = "none" => pin_level' = pin_level
       /\ (AutoStep /\ (now - RELAY_LAST_TOGGLE) < CONF.min_toggle_sec) =>
            (RELAY_STATE' = RELAY_STATE /\ pin_level' = pin_level)
      ]_vars

\* C13 witness: with an active-low relay, the command OFF has just driven the
\* pin HIGH, some time after start.
C13_Witness ==
    /\ lastOp.op = "relay_off"
    /\ ~CONF.active_high
    /\ GPIO_BACKEND = "rpi"
    /\ pin_level = "high"
    /\ RELAY_STATE = "off"
    /\ RELAY_LAST_TOGGLE = now
    /\ now > BootTime

\* ------------------------------------------------------- daily_analyzer.py
\* A row of day_samples is [hour, pv_w, battery_w, battery_v, grid_w, load_w];
\* the rows lie in different 5-minute intervals, so
\* _aggregate_samples_by_interval returns one aggregate per row with the
\* row's values.  Energies are in W * 5-minute intervals (Wh * 12).

\* Python truthiness of a numeric column: s.get(field) is neither None nor 0.
truthy(v) == v # None /\ v # 0

\* 6 <= timestamp.hour <= 20
daylight(s) == MIN_SUNRISE_HOUR <= s.hour /\ s.hour <= MAX_SUNSET_HOUR

\* _calculate_energy_from_power: the sum of abs(power) over the elements
\* whose value is not None, added up value by value (abs(v) times the number
\* of elements with value v).
calculate_energy_from_power(rows, field) ==
    LET vals == {s[field] : s \in rows} \ {None}
    IN  SumOver([v \in vals |->
                    Abs(v) * Cardinality({s \in rows : s[field] = v})], vals)

\* round(total_kwh, 3), in Wh.
round_kwh(e) == (e + (INTERVALS_PER_HOUR \div 2)) \div INTERVALS_PER_HOUR

\* datetime.fromisoformat(sample['timestamp']), as seconds into the day.
timestamp(s) == s.hour * 3600 + s.minute * 60 + s.second

\* min(samples, key=lambda x: x['timestamp']) and max(...)
earliest(rows) == CHOOSE s \in rows : \A r \in rows : timestamp(s) <= timestamp(r)

latest(rows) == CHOOSE s \in rows : \A r \in rows : timestamp(r) <= timestamp(s)

\* interval_start of _aggregate_samples_by_interval for 5-minute intervals.
interval_start(s) == s.hour * 3600 + (s.minute \div 5) * 300

\* _aggregate_samples_by_interval(samples, 5) with _average_samples, for the
\* column pv_w: one aggregate per interval holding the mean of the values
\* that are not None (whole here: the integer quotient), in time order.
aggregate_samples_by_interval(rows) ==
    {[interval |-> i,
      pv_w |-> LET grp  == {s \in rows : interval_start(s) = i /\ s.pv_w # None}
               IN  IF grp = {} THEN None
                   ELSE SumOver([s \in grp |-> s.pv_w], grp) \div Cardinality(grp)] :
        i \in {interval_start(s) : s \in rows}}

\* _analyze_pv: energy in W * 5-minute intervals, times in seconds, peak in W.
analyze_pv(rows) ==
    LET significant_pv_samples ==
            {s \in rows : /\ truthy(s.pv_w)
                          /\ s.pv_w > SIGNIFICANT_PRODUCTION_THRESHOLD
                          /\ daylight(s)}
        first_production == earliest(significant_pv_samples)
        last_production  == latest(significant_pv_samples)
    IN  IF significant_pv_samples = {}
        THEN [raised |-> "none", status |-> "no_significant_production",
              total_energy |-> 0, production_start |-> None,
              production_end |-> None, duration |-> 0, peak_power |-> 0]
        ELSE [raised |-> "none", status |-> "significant_production_detected",
              total_energy |->
                  calculate_energy_from_power(
                      aggregate_samples_by_interval(significant_pv_samples),
                      "pv_w"),
              production_start |-> timestamp(first_production),
              production_end |-> timestamp(last_production),
              duration |-> Min(timestamp(last_production)
                               - timestamp(first_production), 14 * 3600),
              peak_power |-> CHOOSE w \in {s.pv_w : s \in significant_pv_samples} :
                                 \A s \in significant_pv_samples : s.pv_w <= w]

\* _extract_hourly_pv_patterns: s.get('pv_w', 0) > 100 compares None with an
\* int when the column is NULL (the key is present in every row).
extract_hourly_pv_patterns(rows) ==
    [raised |-> IF \E s \in rows : s.pv_w = None THEN "TypeError" ELSE "none"]

\* _analyze_battery: avg_voltage divides by len(voltage_samples).
analyze_battery(rows) ==
    LET battery_samples == {s \in rows : s.battery_w # None}
        voltage_samples == {s \in rows : truthy(s.battery_v)}
    IN  IF battery_samples = {}
        THEN [raised |-> "none", status |-> "no_data"]
        ELSE IF voltage_samples = {}
        THEN [raised |-> "ZeroDivisionError", status |-> "none"]
        ELSE [raised |-> "none", status |-> "data_available"]

\* _analyze_grid
analyze_grid(rows) ==
    [raised |-> "none",
     status |-> IF {s \in rows : s.grid_w # None} = {} THEN "no_data"
                ELSE "data_available"]

\* _analyze_load
analyze_load(rows) ==
    [raised |-> "none",
     status |-> IF {s \in rows : s.load_w # None} = {} THEN "no_data"
                ELSE "data_available"]

\* _extract_seasonal_data: s.get('pv_w', 0) > 100 on every row; the first and
\* last light are the first and last sample above 100 W in the window.
extract_seasonal_data(rows) ==
    LET pv_samples == {s \in rows : s.pv_w # None /\ s.pv_w > 100 /\ daylight(s)}
    IN  [raised |-> IF \E s \in rows : s.pv_w = None THEN "TypeError" ELSE "none",
         daylight_start |-> IF pv_samples = {} THEN None
                            ELSE timestamp(earliest(pv_samples)),
         daylight_end |-> IF pv_samples = {} THEN None
                          ELSE timestamp(latest(pv_samples))]

\* _calculate_daily_totals: system_efficiency only if pv_total > 0;
\* daylight_efficiency divides by totals['pv_w_total_kwh'] whenever
\* daylight_load_kwh > 0.
calculate_daily_totals(rows) ==
    LET pv_total == round_kwh(calculate_energy_from_power(rows, "pv_w"))
        daylight_samples == {s \in rows : s.load_w # None /\ daylight(s)}
        daylight_load_kwh == calculate_energy_from_power(daylight_samples, "load_w")
    IN  [raised |-> IF daylight_load_kwh > 0 /\ pv_total = 0
                    THEN "ZeroDivisionError" ELSE "none",
         pv_total |-> pv_total,
         has_efficiency |-> pv_total > 0]

\* The first exception of a sequence of evaluations, "none" if there is none.
first_raised(seq) ==
    IF \A i \in DOMAIN seq : seq[i] = "none" THEN "none"
    ELSE seq[CHOOSE i \in DOMAIN seq :
                 seq[i] # "none" /\ \A j \in 1..(i - 1) : seq[j] = "none"]

\* analyze_daily_data: {} for a date without samples and on any exception of
\* a sub-analysis (except Exception: return {}), else the document.
analyze_daily_data(rows) ==
    LET pv   == analyze_pv(rows)
        hr   == extract_hourly_pv_patterns(rows)
        bat  == analyze_battery(rows)
        grd  == analyze_grid(rows)
        ld   == analyze_load(rows)
        sea  == extract_seasonal_data(rows)
        tot  == calculate_daily_totals(rows)
        exc  == first_raised(<<pv.raised, hr.raised, bat.raised, grd.raised,
                               ld.raised, sea.raised, tot.raised>>)
    IN  IF rows = {} THEN NoDoc
        ELSE IF exc # "none" THEN [NoDoc EXCEPT !.error = exc]
        ELSE [empty |-> FALSE, total_samples |-> Cardinality(rows),
              photovoltaic |-> pv.status, battery |-> bat.status,
              grid |-> grd.status, household |-> ld.status,
              pv_total |-> tot.pv_total, has_efficiency |-> tot.has_efficiency,
              error |-> "none"]

\* The date of the rows of day_samples.
AnalysisDate == "date"

\* _save_analysis: INSERT OR REPLACE INTO daily_analysis, only reached with a
\* document; an exception of the statements (save_ok false) is logged and
\* swallowed, analyze_daily_data returning the document all the same.
save_analysis(tbl, doc, save_ok) ==
    IF doc.empty \/ ~save_ok THEN tbl ELSE tbl \cup {AnalysisDate}

\* GET /api/analysis/daily/<date>
DailyAnalysisReq(save_ok) ==
    LET doc == analyze_daily_data(day_samples)
    IN  /\ started
        /\ UNCHANGED <<fn_in, fn_out, thr>>
        /\ UNCHANGED gpio_ctx
        /\ lastOp' = [NoOp EXCEPT !.op = "analysis", !.ok = ~doc.empty,
                                  !.steps = Cardinality(day_samples), !.doc = doc]
        /\ daily_analysis' = save_analysis(daily_analysis, doc, save_ok)
        /\ UNCHANGED <<now, nticks, started, CONF, GPIO_BACKEND, pin_level,
                       RELAY_STATE, RELAY_LAST_TOGGLE, samples, archive,
                       battery_counters, mem_last, last_keys, stop, poll_done,
                       day_samples, pending, relay_changed_at, scen, upd_count,
                       last_archive>>

\* cleanup_daily_data then cleanup_old_samples: DELETE FROM samples WHERE
\* DATE(timestamp) = date, unless the analysis is empty (404).
cleanup_old_samples(tbl, doc) == IF doc.empty THEN tbl ELSE {}

\* POST /api/analysis/cleanup/<date>: analyse, then cleanup_old_samples.
DailyCleanupReq(save_ok) ==
    LET doc == analyze_daily_data(day_samples)
    IN  /\ started
        /\ UNCHANGED <<fn_in, fn_out, thr>>
        /\ UNCHANGED gpio_ctx
        /\ lastOp' = [NoOp EXCEPT !.op = "cleanup", !.ok = ~doc.empty,
                                  !.steps = Cardinality(day_samples), !.doc = doc]
        /\ daily_analysis' = save_analysis(daily_analysis, doc, save_ok)
        /\ day_samples' = cleanup_old_samples(day_samples, doc)
        /\ UNCHANGED <<now, nticks, started, CONF, GPIO_BACKEND, pin_level,
                       RELAY_STATE, RELAY_LAST_TOGGLE, samples, archive,
                       battery_counters, mem_last, last_keys, stop, poll_done,
                       pending, relay_changed_at, scen, upd_count,
                       last_archive>>

\* The two requests when the analysis can be saved.
GetDailyAnalysis == DailyAnalysisReq(TRUE)

CleanupDailyData == DailyCleanupReq(TRUE)

\* ------------------------------------------ specification: daily analysis
\* One night hour and MaxDayRows - 1 daylight hours.
DailyHours == {3} \cup {9 + i : i \in 1..(MaxDayRows - 1)}

DailyPv == {None, 0, 200}

DailyBattW == {None, 100}

DailyBattV == {None, 480}

DailyLoad == {None, 300}

DailyVals ==
    [pv_w : DailyPv, battery_w : DailyBattW, battery_v : DailyBattV,
     load_w : DailyLoad]

DailyRow(h, x) ==
    [hour |-> h, minute |-> 0, second |-> 0,
     pv_w |-> x.pv_w, battery_w |-> x.battery_w,
     battery_v |-> x.battery_v, grid_w |-> 0, load_w |-> x.load_w]

\* The tables with at most one row per hour of DailyHours.
DailyTables ==
    UNION {{{DailyRow(h, f[h]) : h \in H} : f \in [H -> DailyVals]} :
              H \in SUBSET DailyHours}

InitDaily == InitState({"none"}, DailyTables)

NextDaily == Main \/ GetDailyAnalysis \/ CleanupDailyData

SpecDaily == InitDaily /\ [][NextDaily]_vars

\* C14: analyze_daily_data for a date with at least one sample returns a
\* non-empty document and persists it, whichever domains lack qualifying
\* samples; efficiency figures are omitted when the PV energy is 0.
C14_AnalysisNeverEmpty ==
    (lastOp.op \in {"analysis", "cleanup"} /\ lastOp.steps >= 1) =>
        /\ ~lastOp.doc.empty
        /\ AnalysisDate \in daily_analysis
        /\ lastOp.doc.pv_total = 0 => ~lastOp.doc.has_efficiency

\* ------------------------------------------- poll loop, shutdown, readers
\* _stop_sig: SIGTERM or SIGINT sets _stop; the HTTP app goes on serving.
Shutdown ==
    /\ started
    /\ UNCHANGED <<fn_in, fn_out, thr>>
    /\ UNCHANGED gpio_ctx
    /\ ~stop
    /\ stop' = TRUE
    /\ lastOp' = [NoOp EXCEPT !.op = "shutdown"]
    /\ UNCHANGED <<now, nticks, started, CONF, GPIO_BACKEND, pin_level,
                   RELAY_STATE, RELAY_LAST_TOGGLE, samples, archive,
                   battery_counters, mem_last, last_keys, poll_done,
                   day_samples, daily_analysis, pending, relay_changed_at,
                   scen, upd_count, last_archive>>

\* The loop test of poll_loop fails after a finished cycle: poll_loop returns.
\* History: lastOp.after is the step before.
LoopReturn ==
    /\ started
    /\ UNCHANGED <<fn_in, fn_out, thr>>
    /\ UNCHANGED gpio_ctx
    /\ ~poll_done
    /\ pending = NoPending
    /\ ~loop_test(stop)
    /\ poll_done' = TRUE
    /\ lastOp' = [NoOp EXCEPT !.op = "loop_return", !.after = lastOp.op]
    /\ UNCHANGED <<now, nticks, started, CONF, GPIO_BACKEND, pin_level,
                   RELAY_STATE, RELAY_LAST_TOGGLE, samples, archive,
                   battery_counters, mem_last, last_keys, stop,
                   day_samples, daily_analysis, pending, relay_changed_at,
                   scen, upd_count, last_archive>>

\* The keys inverter() assigns in the dict it answers with: soc_pct,
\* stale_seconds, last_ok, last_error, relay, i2c, battery_net_wh.
ReaderKeys == {"reader"}

\* SELECT * FROM samples ORDER BY id DESC LIMIT 1: the timestamp of the row
\* inserted last, None for an empty table.
newest_ts(tbl) ==
    IF tbl = {} THEN None
    ELSE CHOOSE t \in {r.timestamp : r \in tbl} :
             \A r \in tbl : r.timestamp <= t

\* inverter(): candidate is the row of the database if there is one and _last
\* is None or not newer, else _last itself (the same dict object).
candidate_is_mem(db_ts, mem_ts) ==
    /\ ~(db_ts # None /\ (mem_ts = None \/ db_ts >= mem_ts))
    /\ mem_ts # None

\* GET /api/inverter, run by an HTTP thread without _lock.
InverterGet ==
    LET use_mem == candidate_is_mem(newest_ts(samples), mem_last)
    IN  /\ started
        /\ UNCHANGED <<fn_in, fn_out, thr>>
        /\ UNCHANGED gpio_ctx
        /\ last_keys' = IF use_mem THEN last_keys \cup ReaderKeys ELSE last_keys
        /\ lastOp' = [NoOp EXCEPT !.op = "inverter",
                        !.src = IF use_mem THEN "mem"
                                ELSE IF samples # {} THEN "db" ELSE "none"]
        /\ UNCHANGED <<now, nticks, started, CONF, GPIO_BACKEND, pin_level,
                       RELAY_STATE, RELAY_LAST_TOGGLE, samples, archive,
                       battery_counters, mem_last, stop, poll_done,
                       day_samples, daily_analysis, pending, relay_changed_at,
                       scen, upd_count, last_archive>>

\* --------------------------------------------- specification: poll loop
LoopPrimary == {"ok", "raise", "unavail"}

LoopDevs == {Dev(0, 0, 470, 0, 0)}

LoopErrors == CycleErrors \cup {"none"}

LoopSteps == <<POLL_S>>

LoopBodies ==
    {Body({"enabled"}, DEFAULT_ON_V, DEFAULT_OFF_V, 5, TRUE, TRUE,
          DEFAULT_NET_RESET_V, FALSE)}

InitLoop == InitWith({"rpi"})

TickLoop == Tick(StepOf(LoopSteps, nticks), MaxLoopTicks)

PollReadLoop ==
    \E po \in LoopPrimary, dev \in LoopDevs, err \in LoopErrors :
        PollReadErr(po, "unavail", dev, err)

ConfigLoop == \E data \in LoopBodies : ConfigPost(data)

NextLoop ==
    \/ Main
    \/ TickLoop
    \/ PollReadLoop
    \/ PollWrite
    \/ Shutdown
    \/ LoopReturn
    \/ InverterGet
    \/ ConfigLoop

SpecLoop == InitLoop /\ [][NextLoop]_vars

\* The poll thread keeps running: a cycle begun is finished, the loop test is
\* reached after the sleep of at most POLL_S seconds.
SpecLoopFair ==
    /\ SpecLoop
    /\ WF_vars(PollReadLoop)
    /\ WF_vars(PollWrite)
    /\ WF_vars(LoopReturn)

\* C15: after _stop is set poll_loop starts no other cycle and eventually
\* returns; a cycle in flight when the signal is set still completes, all
\* its steps in one piece, before the loop returns.
C15_ShutdownStopsLoop ==
    /\ [][stop => lastOp'.op # "poll_read"]_vars
    /\ [][(pending # NoPending /\ pending' = NoPending) => lastOp'.op = "poll"]_vars
    /\ [][(poll_done' /\ ~poll_done) => (stop /\ pending = NoPending)]_vars
    /\ (stop /\ pending # NoPending) ~> (pending = NoPending)
    /\ stop ~> poll_done

\* C15 witness: the signal was set during a cycle, the cycle has stored its
\* sample after it and poll_loop has then returned.
C15_Witness ==
    /\ lastOp.op = "loop_return"
    /\ lastOp.after = "poll"
    /\ stop
    /\ poll_done
    /\ mem_last # None
    /\ \E r \in samples : r.timestamp = mem_last

\* A cycle in which an exception was raised has just ended.
CycleRaised == lastOp.op = "poll" /\ (lastOp.err # "none" \/ lastOp.raised)

\* C19: an exception raised anywhere in a poll cycle (read, I2C read, sample
\* insert, relay step, counter update) never ends poll_loop: the loop returns
\* only after _stop is set, and after such a cycle a next cycle is started
\* unless _stop is set.
C19_LoopSurvivesErrors ==
    /\ [](poll_done => stop)
    /\ CycleRaised ~> (stop \/ pending # NoPending)

\* C19 witness: the sample insert of the cycle just ended raised, _stop is
\* not set and poll_loop has not returned.
C19_Witness ==
    /\ lastOp.op = "poll"
    /\ lastOp.err = "insert"
    /\ ~stop
    /\ ~poll_done
    /\ mem_last = now
    /\ ~\E r \in samples : r.timestamp = now

\* C16: every value of _last a reader can observe is the complete sample of
\* one finished poll-cycle read, never partially built and never changed by
\* anything other than the poll loop.
C16_LastIsPollSample == mem_last # None => last_keys = SampleKeys

\* C20: in every cycle whose read returned a battery voltage while the relay
\* is enabled, relay_auto_step is evaluated exactly once, whether the sample
\* insert succeeded, was ignored as a duplicate or raised.
C20_RelayStepOnce ==
    (lastOp.op = "poll" /\ lastOp.ok /\ lastOp.v # None /\ CONF.enabled)
        => lastOp.steps = 1

\* ------------------------------------------------------------ claim C18
\* The step is a run of POST /api/maintenance/archive.
ArchiveStep == lastOp'.op = "archive"

\* The archive rows an apply run with this cutoff has written: those of the
\* days that had a sample older than the cutoff.
WrittenDays(cutoff) ==
    {a \in archive' :
        \E r \in samples : r.timestamp < cutoff /\ DayOf(r.timestamp) = a.day}

\* C18: a dry run of the archival changes no row of samples or archive, and
\* the counts it reports equal the number of sample rows deleted and of
\* archive day rows written by the apply run with the same cutoff that
\* follows it immediately.
C18_DryRunCounts ==
    [][/\ (ArchiveStep /\ ~lastOp'.apply) =>
            (samples' = samples /\ archive' = archive)
       /\ (ArchiveStep /\ lastOp'.apply /\ DryRunBefore(lastOp'.cutoff)) =>
            /\ Cardinality(samples \ samples') = lastOp.minutes
            /\ samples' \subseteq samples
            /\ Cardinality(WrittenDays(lastOp'.cutoff)) = lastOp.days
      ]_vars

\* C18 witness: an apply run right after a dry run with the same cutoff has
\* deleted sample rows, kept a newer one and written an archive row.
C18_Witness ==
    /\ lastOp.op = "archive"
    /\ lastOp.apply
    /\ lastOp.after = "dry_run"
    /\ samples # {}
    /\ \A r \in samples : r.timestamp >= lastOp.cutoff
    /\ \E a \in archive : a.pv_Wh # None /\ a.pv_Wh > 0

\* ---------------------------------------- specification: energy accounting
EnergyDevs == {Dev(60, w, 480, 120, 0) : w \in {-PRef, PRef}}

\* 00:00:00 and 00:01:00 of one day, then 00:01:00 of the next.
EnergySteps == <<SECONDS_PER_MINUTE, SECONDS_PER_DAY>>

InitEnergy == InitWith({"none"})

TickEnergy == Tick(StepOf(EnergySteps, nticks), MaxEnergyTicks)

PollEnergy == \E dev \in EnergyDevs : Poll("ok", "ok", dev)

ArchiveEnergy == \E dry_run \in BOOLEAN : MaintenanceArchive(TRUE, 0, dry_run)

NextEnergy == Main \/ TickEnergy \/ PollEnergy \/ ArchiveEnergy

SpecEnergy == InitEnergy /\ [][NextEnergy]_vars

\* An archive field is NULL or not negative.
NullOrNonNegative(x) == x = None \/ x >= 0

\* The energy fields of every archive row are not negative (pv_Wh, load_Wh
\* and grid_Wh are NULL for a day without a value of the column).
ArchiveNonNegative ==
    \A a \in archive :
        /\ NullOrNonNegative(a.pv_Wh)
        /\ NullOrNonNegative(a.load_Wh)
        /\ NullOrNonNegative(a.grid_Wh)
        /\ a.batt_in_Wh >= 0
        /\ a.batt_out_Wh >= 0

\* C17 as stated: in every reachable state total_batt_in_Wh,
\* total_batt_out_Wh and total_batt_net_Wh of the open counter row and every
\* energy field of every archive row are non-negative.
C17_AllEnergiesNonNegative ==
    /\ \A i \in OpenRows :
          /\ battery_counters[i].total_batt_in_Wh >= 0
          /\ battery_counters[i].total_batt_out_Wh >= 0
          /\ battery_counters[i].total_batt_net_Wh >= 0
    /\ ArchiveNonNegative

\* C17 amended: total_batt_in_Wh and total_batt_out_Wh of the open counter
\* row and every energy field of every archive row are non-negative;
\* total_batt_net_Wh is signed: it is their difference, negative after more
\* discharge than charge.
C17_TotalsNonNegativeNetSigned ==
    /\ \A i \in OpenRows :
          LET r == battery_counters[i]
          IN  /\ r.total_batt_in_Wh >= 0
              /\ r.total_batt_out_Wh >= 0
              /\ r.total_batt_net_Wh = r.total_batt_in_Wh - r.total_batt_out_Wh
    /\ ArchiveNonNegative

\* C17 witness: the open counter row has a negative net energy after more
\* discharge than charge, and an archived day has a positive batt_out_Wh.
C17_Witness ==
    /\ \E i \in OpenRows :
          /\ battery_counters[i].total_batt_net_Wh < 0
          /\ battery_counters[i].total_batt_in_Wh > 0
    /\ \E a \in archive : a.batt_out_Wh > 0 /\ a.batt_in_Wh = 0

\* ------------------------------------------------------------ claims C21..
\* The operations that archive: POST /api/maintenance/archive,
\* db_archive_and_trim and db_archive_upto_today.
ArchivalOps == {"archive", "db_archive"}

\* C21: no operation removes a row of samples whose day has no row in
\* archive: a row is deleted only by archival, after the summary of its day
\* has been upserted into archive in the same operation.
C21_DeleteOnlyArchived ==
    [][/\ \A r \in samples \ samples' :
             /\ lastOp'.op \in ArchivalOps
             /\ \E a \in archive' : a.day = DayOf(r.timestamp)
       /\ (day_samples \ day_samples' # {}) =>
             (lastOp'.op \in ArchivalOps /\ archive' # {})
      ]_vars

\* ------------------------------------- specification: cleanup of a date
InitCleanup == InitState({"none"}, DailyTables)

AnalysisCleanup == \E save_ok \in BOOLEAN : DailyAnalysisReq(save_ok)

CleanupCleanup == \E save_ok \in BOOLEAN : DailyCleanupReq(save_ok)

NextCleanup == Main \/ AnalysisCleanup \/ CleanupCleanup

SpecCleanup == InitCleanup /\ [][NextCleanup]_vars

\* C22: the cleanup deletes the samples of a date only if an analysis record
\* of the date is stored in daily_analysis at the moment of the deletion; if
\* the analysis is empty, fails or cannot be saved, no sample is deleted.
C22_CleanupNeedsRecord ==
    [][(day_samples \ day_samples' # {}) => AnalysisDate \in daily_analysis']_vars

\* ------------------------------------------------- Modbus register blocks
\* The addresses of REGS.
REGS == (202..204) \cup (210..220) \cup {223} \cup (225..228)

\* sorted(REGS, key=lambda r: r[1]): the addresses of a register map in
\* ascending order (the addresses are distinct, so they identify the items).
RECURSIVE sorted(_)
sorted(S) ==
    IF S = {} THEN <<>>
    ELSE LET m == CHOOSE x \in S : \A y \in S : x <= y
         IN  <<m>> \o sorted(S \ {m})

Last(s) == s[Len(s)]

\* Mutant of blocks_fits: the span of the block is not limited.
blocks_fits_any_len(addr, cur, start, max_gap, max_len) ==
    (addr - Last(cur)) <= max_gap

\* (addr - cur[-1][1]) <= max_gap and (addr - start + 1) <= max_len
blocks_fits(addr, cur, start, max_gap, max_len) ==
    (addr - Last(cur)) <= max_gap /\ (addr - start + 1) <= max_len

\* The loop of _blocks over items[i..]: out are the closed blocks, cur the
\* open one and start its first address (None before the first item).
RECURSIVE blocks_loop(_, _, _, _, _, _, _)
blocks_loop(items, i, out, cur, start, max_gap, max_len) ==
    IF i > Len(items)
    THEN (IF start # None THEN Append(out, [start |-> start, block |-> cur])
          ELSE out)
    ELSE LET addr == items[i]
         IN  IF start = None
             THEN blocks_loop(items, i + 1, out, <<addr>>, addr, max_gap, max_len)
             ELSE IF blocks_fits(addr, cur, start, max_gap, max_len)
             THEN blocks_loop(items, i + 1, out, Append(cur, addr), start,
                              max_gap, max_len)
             ELSE blocks_loop(items, i + 1,
                              Append(out, [start |-> start, block |-> cur]),
                              <<addr>>, addr, max_gap, max_len)

\* _blocks(max_gap, max_len) over the register map regs.
blocks(regs, max_gap, max_len) ==
    blocks_loop(sorted(regs), 1, <<>>, <<>>, None, max_gap, max_len)

\* The holding register at address a of the device (any 16-bit pattern that
\* tells the addresses apart).
HoldingRegister(a) == (a * 257 + 13) % 65536

\* cli.read_holding_registers(start, count).registers
read_holding_registers(start, count) ==
    [k \in 1..count |-> HoldingRegister(start + k - 1)]

\* The block loop of read_regs: raw = int(regs[addr - start]) per register of
\* each block, after one bulk read of count = block[-1][1] - start + 1.
\* A read outside the list (IndexError) is reported as None.
read_regs_raw(bs) ==
    LET in_block(a) == CHOOSE k \in 1..Len(bs) :
                           \E j \in 1..Len(bs[k].block) : bs[k].block[j] = a
    IN  [a \in UNION {{bs[k].block[j] : j \in 1..Len(bs[k].block)} : k \in 1..Len(bs)} |->
            LET b     == bs[in_block(a)]
                count == Last(b.block) - b.start + 1
                regs  == read_holding_registers(b.start, count)
                idx   == a - b.start
            IN  IF idx >= 0 /\ idx < count THEN regs[idx + 1] ELSE None]

\* read_regs: the blocks of the register map fn_in and the raw value read for
\* each of its registers.
ReadRegs ==
    /\ fn_in.fn = "blocks"
    /\ fn_out = NoFn
    /\ LET bs == blocks(fn_in.regs, 1, 16)
       IN  fn_out' = [fn |-> "blocks", blocks |-> bs, raw |-> read_regs_raw(bs)]
    /\ UNCHANGED <<now, nticks, started, CONF, GPIO_BACKEND, pin_level,
                   RELAY_STATE, RELAY_LAST_TOGGLE, samples, archive,
                   battery_counters, mem_last, last_keys, stop, poll_done,
                   day_samples, daily_analysis, pending, lastOp,
                   relay_changed_at, scen, upd_count, last_archive,
                   gpio_ctx, thr, fn_in>>

\* Largest address of the generated register maps.
MaxAddr == 18

\* Register maps: a run of addresses with up to two holes, and REGS itself.
BlockMaps ==
    {[fn |-> "blocks", regs |-> S] :
        S \in {(0..MaxAddr) \ {a, b} : a, b \in 0..(MaxAddr + 1)} \cup {REGS}}

InitBlocks == InitFn({"none"}, {{}}, BlockMaps)

NextBlocks == ReadRegs

SpecBlocks == InitBlocks /\ [][NextBlocks]_vars

\* The addresses of block b, as a set.
BlockSet(b) == {b.block[j] : j \in 1..Len(b.block)}

\* C23: _blocks(1, 16) partitions the register map into blocks with ascending
\* addresses, neighbours in a block at most max_gap = 1 apart and a span
\* last - start + 1 of at most max_len = 16, and read_regs finds each
\* register's value at index addr - start of the block's bulk read.
C23_BlocksPartition ==
    fn_out.fn = "blocks" =>
        LET bs == fn_out.blocks
        IN  /\ \A a \in fn_in.regs :
                  Cardinality({k \in 1..Len(bs) : a \in BlockSet(bs[k])}) = 1
            /\ \A k \in 1..Len(bs) :
                  LET b == bs[k]
                  IN  /\ Len(b.block) >= 1
                      /\ BlockSet(b) \subseteq fn_in.regs
                      /\ b.start = b.block[1]
                      /\ \A j \in 1..(Len(b.block) - 1) :
                            /\ b.block[j] < b.block[j + 1]
                            /\ b.block[j + 1] - b.block[j] <= 1
                      /\ Last(b.block) - b.start + 1 <= 16
                      /\ k < Len(bs) => Last(b.block) < bs[k + 1].start
            /\ \A a \in fn_in.regs : fn_out.raw[a] = HoldingRegister(a)

\* A run of more than 16 contiguous addresses was cut by max_len, and the map
\* also has a block closed by an address gap.
C23_Witness ==
    /\ fn_out.fn = "blocks"
    /\ \E k \in 1..(Len(fn_out.blocks) - 1) :
          /\ fn_out.blocks[k + 1].start - Last(fn_out.blocks[k].block) = 1
          /\ Last(fn_out.blocks[k].block) - fn_out.blocks[k].start + 1 = 16
    /\ \E k \in 1..(Len(fn_out.blocks) - 1) :
          fn_out.blocks[k + 1].start - Last(fn_out.blocks[k].block) > 1

\* ------------------------------------------------------- I2C: ADS1115
\* if raw > 32767: raw -= 65535
sign_correct(raw) == IF raw > 32767 THEN raw - 65535 ELSE raw

\* round(n / d) to the nearest integer (d > 0), a tie to the even neighbour.
RoundDiv(n, d) ==
    LET q == (2 * n + d) \div (2 * d)
    IN  IF (2 * n + d) % (2 * d) = 0 /\ q % 2 = 1 THEN q - 1 ELSE q

\* The first pass of i2c_read_all over one ADS1115 channel ch with conversion
\* result ch.raw: volts = raw * (4.096 / 32768.0) is raw * 125 microvolts.
\* raw_v is in microvolts (round(volts, 6)), scaled_v in millivolts
\* (round(volts * voltage_scale, 3)), value in thousandths of its unit.
ads_entry(ch) ==
    LET uv       == sign_correct(ch.raw) * 125
        scaled_v == IF ch.voltage_scale # None
                    THEN RoundDiv(uv * ch.voltage_scale, 1000) ELSE None
    IN  [raw_v            |-> uv,
         scaled_v         |-> scaled_v,
         value            |-> IF scaled_v # None THEN scaled_v ELSE uv,
         unit             |-> IF scaled_v # None THEN "V" ELSE "mV",
         subtract_channel |-> ch.subtract_channel]

\* tmp_measurements after the first pass: one entry per channel name.
tmp_measurements(channels) ==
    [n \in {channels[i].name : i \in 1..Len(channels)} |->
        ads_entry(channels[CHOOSE i \in 1..Len(channels) : channels[i].name = n])]

\* One step of the post-processing loop, for the entry named n: the entries
\* are shared dictionaries, so a changed entry is what later steps read.
\* A subtract_channel that is absent or empty is "".
subtract_step(tmp, n) ==
    LET entry == tmp[n]
        sub   == entry.subtract_channel
    IN  IF sub = "" THEN tmp
        ELSE IF sub \notin DOMAIN tmp THEN tmp
        ELSE IF entry.scaled_v = None \/ tmp[sub].scaled_v = None THEN tmp
        ELSE LET diff == entry.scaled_v - tmp[sub].scaled_v
             IN  [tmp EXCEPT ![n] = [entry EXCEPT !.scaled_v = diff,
                                                  !.value = diff,
                                                  !.subtract_channel = ""]]

\* for ch_name, entry in tmp_measurements.items(): in insertion order, which
\* is the order of the configured channels.
RECURSIVE subtract_pass(_, _, _)
subtract_pass(tmp, channels, i) ==
    IF i > Len(channels) THEN tmp
    ELSE subtract_pass(subtract_step(tmp, channels[i].name), channels, i + 1)

\* i2c_read_all for one ADS1115 device whose channels and conversion results
\* are fn_in.channels: the values reported per channel.
I2cReadAll ==
    /\ fn_in.fn = "ads1115"
    /\ fn_out = NoFn
    /\ fn_out' = [fn   |-> "ads1115",
                  vals |-> subtract_pass(tmp_measurements(fn_in.channels),
                                         fn_in.channels, 1)]
    /\ UNCHANGED <<now, nticks, started, CONF, GPIO_BACKEND, pin_level,
                   RELAY_STATE, RELAY_LAST_TOGGLE, samples, archive,
                   battery_counters, mem_last, last_keys, stop, poll_done,
                   day_samples, daily_analysis, pending, lastOp,
                   relay_changed_at, scen, upd_count, last_archive,
                   gpio_ctx, thr, fn_in>>

\* Largest conversion result of the single-channel devices.
MaxRaw == 65535

AdcChannel(n, raw, scale, sub) ==
    [name |-> n, raw |-> raw, voltage_scale |-> scale, subtract_channel |-> sub]

\* One channel A0, every conversion result.
AdcInputs ==
    {[fn |-> "ads1115", channels |-> <<AdcChannel("A0", r, None, "")>>] :
        r \in 0..MaxRaw}

InitAdc == InitFn({"none"}, {{}}, AdcInputs)

NextAdc == I2cReadAll

SpecAdc == InitAdc /\ [][NextAdc]_vars

\* C24: the sign-corrected conversion result is raw up to 32767 and
\* raw - 65536 above; raw_v is that value times 125 microvolts.
C24_SignCorrect ==
    fn_out.fn = "ads1115" =>
        \A i \in 1..Len(fn_in.channels) :
            LET ch == fn_in.channels[i]
            IN  fn_out.vals[ch.name].raw_v =
                    125 * (IF ch.raw <= 32767 THEN ch.raw ELSE ch.raw - 65536)

\* Channels of the devices with subtract dependencies.
MaxChannels == 3

ChanNames == {"A0", "A1", "A2", "A3"}

\* Conversion results per channel name: all below 32768, multiples of 8 (so
\* that the millivolt values are whole) and with distinct differences.
ChanRaw == [A0 |-> 24000, A1 |-> 16000, A2 |-> 4000, A3 |-> 800]

\* Every order of MaxChannels distinct channels, each with or without a
\* voltage scale on the first, and any subtract_channel (none, itself,
\* another configured channel or a channel that is not configured).
SubtractInputs ==
    {[fn |-> "ads1115",
      channels |-> [i \in 1..MaxChannels |->
                      AdcChannel(names[i], ChanRaw[names[i]],
                                 IF i = 1 THEN sc ELSE 1, subs[i])]] :
        names \in {f \in [1..MaxChannels -> ChanNames] :
                      \A i, j \in 1..MaxChannels : i # j => f[i] # f[j]},
        subs \in [1..MaxChannels -> {""} \cup ChanNames],
        sc \in {None, 1}}

InitSubtract == InitFn({"none"}, {{}}, SubtractInputs)

NextSubtract == I2cReadAll

SpecSubtract == InitSubtract /\ [][NextSubtract]_vars

\* C25: a channel with a subtract dependency on a configured channel (both
\* with a scaled voltage) reports its own first-pass scaled voltage minus the
\* referenced channel's first-pass scaled voltage, in every channel order and
\* also when the referenced channel has a subtract dependency itself.
C25_SubtractFirstPass ==
    fn_out.fn = "ads1115" =>
        LET first == tmp_measurements(fn_in.channels)
        IN  \A n \in DOMAIN first :
                LET sub == first[n].subtract_channel
                IN  (/\ sub # ""
                     /\ sub \in DOMAIN first
                     /\ first[n].scaled_v # None
                     /\ first[sub].scaled_v # None)
                    => fn_out.vals[n].scaled_v =
                           first[n].scaled_v - first[sub].scaled_v

\* ------------------------------------- specification: production window
\* _analyze_pv and _extract_seasonal_data applied to the samples fn_in.rows.
AnalyzePv ==
    /\ fn_in.fn = "analyze_pv"
    /\ fn_out = NoFn
    /\ fn_out' = [fn |-> "analyze_pv",
                  pv |-> analyze_pv(fn_in.rows),
                  seasonal |-> extract_seasonal_data(fn_in.rows)]
    /\ UNCHANGED <<now, nticks, started, CONF, GPIO_BACKEND, pin_level,
                   RELAY_STATE, RELAY_LAST_TOGGLE, samples, archive,
                   battery_counters, mem_last, last_keys, stop, poll_done,
                   day_samples, daily_analysis, pending, lastOp,
                   relay_changed_at, scen, upd_count, last_archive,
                   gpio_ctx, thr, fn_in>>

\* The minute of the hour at which the samples of the window tables are taken.
WindowMinute == 30

\* Hours around both ends of the production window, and noon.
WindowHours == {5, 6, 12, 19, 20, 21}

\* Powers at and around the significance threshold; 0 stands for no sample.
WindowPv == {0, 100, 101, 400}

PvSample(h, m, sec, w) == [hour |-> h, minute |-> m, second |-> sec, pv_w |-> w]

\* At most one sample per hour of WindowHours.
WindowInputs ==
    {[fn |-> "analyze_pv",
      rows |-> {PvSample(h, WindowMinute, 0, f[h]) : h \in {x \in WindowHours : f[x] # 0}}] :
        f \in [WindowHours -> WindowPv]}

InitWindow == InitFn({"none"}, {{}}, WindowInputs)

NextWindow == AnalyzePv

SpecWindow == InitWindow /\ [][NextWindow]_vars

\* The samples the production window admits: above 100 W with 6 <= hour < 20.
InWindow(rows) == {s \in rows : s.pv_w > 100 /\ 6 <= s.hour /\ s.hour < 20}

\* C26: _analyze_pv detects significant production iff some sample has
\* pv_w > 100 with 6 <= hour < 20, and its energy, start, end, peak and
\* duration, like the daylight bounds of _extract_seasonal_data, are those of
\* these samples alone: a sample before hour 6 or at hour 20 or later never
\* contributes.
C26_ProductionWindow ==
    fn_out.fn = "analyze_pv" =>
        /\ (fn_out.pv.status = "significant_production_detected")
               <=> (InWindow(fn_in.rows) # {})
        /\ fn_out.pv = analyze_pv(InWindow(fn_in.rows))
        /\ fn_out.seasonal = extract_seasonal_data(InWindow(fn_in.rows))

\* ------------------------------------------ night production anomaly
\* night_hours = list(range(22, 24)) + list(range(0, 6))
night_hours == (22..23) \cup (0..5)

\* self._calculate_energy_from_power(night_pv_samples, 'pv_w', 5) on the
\* samples as they are, each one counted as a 5-minute interval.
night_energy(night_pv_samples) ==
    calculate_energy_from_power(night_pv_samples, "pv_w")

\* _detect_pv_night_production: the list of anomalies, with the energy in
\* W * 5-minute intervals (0.5 kWh is 500 * INTERVALS_PER_HOUR).
detect_pv_night_production(rows) ==
    LET night_pv_samples ==
            {s \in rows : truthy(s.pv_w) /\ s.pv_w > 100 /\ s.hour \in night_hours}
        night_production == night_energy(night_pv_samples)
    IN  IF night_pv_samples # {} /\ night_production > 500 * INTERVALS_PER_HOUR
        THEN <<[type |-> "pv_night_production_anomaly",
                night_production |-> night_production,
                samples_count |-> Cardinality(night_pv_samples)]>>
        ELSE <<>>

\* _detect_pv_night_production applied to the samples fn_in.rows.
DetectNight ==
    /\ fn_in.fn = "night"
    /\ fn_out = NoFn
    /\ fn_out' = [fn |-> "night",
                  anomalies |-> detect_pv_night_production(fn_in.rows)]
    /\ UNCHANGED <<now, nticks, started, CONF, GPIO_BACKEND, pin_level,
                   RELAY_STATE, RELAY_LAST_TOGGLE, samples, archive,
                   battery_counters, mem_last, last_keys, stop, poll_done,
                   day_samples, daily_analysis, pending, lastOp,
                   relay_changed_at, scen, upd_count, last_archive,
                   gpio_ctx, thr, fn_in>>

\* The longest night production episode, in 5-minute intervals.
MaxNightIntervals == 3

\* Sampling periods in seconds, from one sample per 5 s to one per 5 min.
NightPeriods == {5, 30, 150, 300}

\* Constant powers of an episode: 2400 W for 15 minutes is 0.6 kWh, 1200 W
\* for 15 minutes 0.3 kWh.
NightPowers == {1200, 2400}

\* The hours at which an episode starts: three at night, one at noon.
NightStarts == {0, 5, 12, 22}

\* The samples of an episode of n intervals at power w from hour h on, one
\* sample every period seconds.
NightSamples(h, n, w, period) ==
    {PvSample(h + (k * period) \div 3600, ((k * period) % 3600) \div 60,
              (k * period) % 60, w) :
        k \in 0..((n * 300) \div period - 1)}

NightInputs ==
    {[fn |-> "night", period |-> p, power |-> w, intervals |-> n, hour |-> h,
      rows |-> NightSamples(h, n, w, p)] :
        p \in NightPeriods, w \in NightPowers, n \in 1..MaxNightIntervals,
        h \in NightStarts}

InitNight == InitFn({"none"}, {{}}, NightInputs)

NextNight == DetectNight

SpecNight == InitNight /\ [][NextNight]_vars

\* The energy produced at night by the episode of fn_in, in W * 5-minute
\* intervals.
NightProduced ==
    IF fn_in.hour \in night_hours THEN fn_in.power * fn_in.intervals ELSE 0

\* C27: one pv_night_production_anomaly is reported when the PV energy
\* produced between 22:00 and 06:00 exceeds 0.5 kWh and none when it is at
\* most 0.5 kWh, at every sampling density from one sample per 5 seconds to
\* one per 5 minutes.
C27_NightAnomaly ==
    fn_out.fn = "night" =>
        Len(fn_out.anomalies) =
            (IF NightProduced > 500 * INTERVALS_PER_HOUR THEN 1 ELSE 0)

\* ---------------------------------------------- GPIO handle (lgpio)
\* The atexit callback _gpio_cleanup, run when main() has returned and the
\* interpreter exits; the daemon poll thread is still alive at that point.
AtExit ==
    /\ started
    /\ ~gpio_ctx.exited
    /\ gpio_ctx' = [gpio_cleanup(gpio_ctx, GPIO_BACKEND) EXCEPT !.exited = TRUE]
    /\ lastOp' = [NoOp EXCEPT !.op = "atexit"]
    /\ UNCHANGED <<now, nticks, started, CONF, GPIO_BACKEND, pin_level,
                   RELAY_STATE, RELAY_LAST_TOGGLE, samples, archive,
                   battery_counters, mem_last, last_keys, stop, poll_done,
                   day_samples, daily_analysis, pending, relay_changed_at,
                   scen, upd_count, last_archive, thr, fn_in, fn_out>>

MaxGpioTicks == 1

GpioVolts == {470, 500}

GpioSteps == <<POLL_S>>

GpioBodies ==
    {Body({"enabled"}, DEFAULT_ON_V, DEFAULT_OFF_V, 5, e, TRUE,
          DEFAULT_NET_RESET_V, p) : e \in BOOLEAN, p \in BOOLEAN}

InitGpio == InitWith({"lgpio"})

TickGpio == Tick(StepOf(GpioSteps, nticks), MaxGpioTicks)

PollGpio == \E v \in GpioVolts : Poll("ok", "ok", Dev(0, 0, v, 0, 0))

GpioOn == RelayManual(TRUE)

GpioOff == RelayManual(FALSE)

ConfigGpio == \E data \in GpioBodies : ConfigPost(data)

NextGpio ==
    Main \/ TickGpio \/ PollGpio \/ GpioOn \/ GpioOff \/ ConfigGpio \/ AtExit

SpecGpio == InitGpio /\ [][NextGpio]_vars

\* C28: with the lgpio backend the chip handle is opened at most once in a
\* process run, _gpio_cleanup releases it exactly once at shutdown (no handle
\* stays open), and no handle is opened after that release.
C28_HandleOnce ==
    GPIO_BACKEND = "lgpio" =>
        /\ gpio_ctx.opened <= 1
        /\ gpio_ctx.closed <= 1
        /\ gpio_ctx.exited =>
              (gpio_ctx.closed = gpio_ctx.opened /\ gpio_ctx.open = {})
        /\ ~gpio_ctx.reopened

\* --------------------------------- battery counter calls, statement by
\* statement.  Every db() call opens its own connection and no lock is held
\* between the statements of a call, so other threads run in between.

\* GET /api/battery/status and GET /api/totals/today on HTTP thread t, up to
\* the SELECT of get_current_battery_counter: with a row the handler answers,
\* without one the INSERT is next.
StatusSelect(t) ==
    /\ started
    /\ \A c \in thr : c.t # t
    /\ IF battery_counters = <<>>
       THEN thr' = thr \cup counter_select(t, None, battery_counters)
       ELSE UNCHANGED thr
    /\ lastOp' = [NoOp EXCEPT !.op = "battery_status",
                              !.ok = battery_counters # <<>>]
    /\ UNCHANGED <<now, nticks, started, CONF, GPIO_BACKEND, pin_level,
                   RELAY_STATE, RELAY_LAST_TOGGLE, samples, archive,
                   battery_counters, mem_last, last_keys, stop, poll_done,
                   day_samples, daily_analysis, pending, relay_changed_at,
                   scen, upd_count, last_archive, gpio_ctx, fn_in, fn_out>>

\* The INSERT of get_current_battery_counter by the thread whose SELECT found
\* no row: new_id = cursor.lastrowid.  An HTTP handler then answers; the poll
\* thread goes on to the UPDATE.
CounterInsert(t) ==
    /\ started
    /\ Len(battery_counters) < MaxCounters
    /\ \E c \in thr :
          /\ c.t = t
          /\ c.pc = "insert"
          /\ battery_counters' =
                Append(battery_counters,
                       new_counter_row(Len(battery_counters) + 1, now))
          /\ thr' = (thr \ {c}) \cup
                    (IF t = "poll"
                     THEN {[c EXCEPT !.pc = "have",
                                     !.id = Len(battery_counters) + 1]}
                     ELSE {})
    /\ upd_count' = CountsFor(battery_counters', 0, None)
    /\ lastOp' = [NoOp EXCEPT !.op = "counter_insert"]
    /\ UNCHANGED <<now, nticks, started, CONF, GPIO_BACKEND, pin_level,
                   RELAY_STATE, RELAY_LAST_TOGGLE, samples, archive,
                   mem_last, last_keys, stop, poll_done, day_samples,
                   daily_analysis, pending, relay_changed_at, scen,
                   last_archive, gpio_ctx, fn_in, fn_out>>

\* The UPDATE ... WHERE id = counter['id'] of update_battery_counter, which
\* ends the poll cycle.  History: lastOp.reset says that the row updated had
\* a reset_reason.
CounterUpdate ==
    /\ started
    /\ \E c \in thr :
          /\ c.t = "poll"
          /\ c.pc = "have"
          /\ battery_counters' =
                [battery_counters EXCEPT ![c.id] = update_row(@, c.w)]
          /\ upd_count' = CountsFor(battery_counters', c.id, c.w)
          /\ thr' = thr \ {c}
          /\ lastOp' = [NoOp EXCEPT !.op = "counter_update", !.w = c.w,
                          !.reset = battery_counters[c.id].reset_reason # NULL]
    /\ UNCHANGED <<now, nticks, started, CONF, GPIO_BACKEND, pin_level,
                   RELAY_STATE, RELAY_LAST_TOGGLE, samples, archive,
                   mem_last, last_keys, stop, poll_done, day_samples,
                   daily_analysis, pending, relay_changed_at, scen,
                   last_archive, gpio_ctx, fn_in, fn_out>>

\* ------------------------------------ specification: counter interleavings
MaxRaceTicks == 1

RaceSteps == <<RESET_DEBOUNCE_S>>

RacePowers == {-PRef, PRef}

\* A battery voltage above the reset threshold: the poll cycles reset nothing,
\* so rows are created by get_current_battery_counter or by a manual reset.
RaceVolts == {500}

\* The HTTP threads serving /api/totals/today and /api/battery/status.
HttpThreads == {"totals", "status"}

InitRace == InitWith({"none"})

TickRace == Tick(StepOf(RaceSteps, nticks), MaxRaceTicks)

PollRace ==
    \E w \in RacePowers, v \in RaceVolts :
        PollAt("ok", "ok", Dev(0, w, v, 0, 0), FALSE)

InsertRace == \E t \in HttpThreads \cup {"poll"} : CounterInsert(t)

StatusRace == \E t \in HttpThreads : StatusSelect(t)

ResetRace == BatteryReset("manual")

NextRace ==
    Main \/ TickRace \/ PollRace \/ InsertRace \/ CounterUpdate \/ StatusRace
         \/ ResetRace

SpecRace == InitRace /\ [][NextRace]_vars

\* The totals of a counter row.
Totals(r) == <<r.total_batt_in_Wh, r.total_batt_out_Wh, r.total_batt_net_Wh>>

\* C29: no step changes the totals of a counter row whose reset_reason is
\* non-null, under every interleaving of the poll thread's update (SELECT of
\* the current row, then UPDATE by id) with resets, those in the second of
\* the previous counter's start included.
C29_ClosedRowsFrozen ==
    [][\A i \in DOMAIN battery_counters :
          battery_counters[i].reset_reason # NULL =>
              Totals(battery_counters'[i]) = Totals(battery_counters[i])]_vars

\* ---------------------------------------- specification: lazy creation
\* The calls of get_current_battery_counter by the poll thread and the two
\* HTTP threads, with no reset: every row is created lazily.
NextLazy ==
    Main \/ TickRace \/ PollRace \/ InsertRace \/ CounterUpdate \/ StatusRace

SpecLazy == InitRace /\ [][NextLazy]_vars

\* C30: concurrent get_current_battery_counter calls on an empty table
\* create exactly one row, so the table never holds two open daily_net rows.
C30_OneLazyRow ==
    Cardinality({i \in DOMAIN battery_counters :
                    battery_counters[i].reset_reason = NULL}) <= 1

====
